---------------------------- MODULE Spec2Model ----------------------------
(***************************************************************************)
(* A model of payway-js (src/index.js, the v0.4.0 client that starts at    *)
(* line 375): the request-signing and payload-construction protocol of     *)
(* PayWayClient, its three operations and its error mapping.               *)
(*                                                                         *)
(* Representation.  A JavaScript string is a sequence of one-character     *)
(* strings, so that trimming, joining, base64 and substring search are     *)
(* computed.  A JavaScript value is a record                                *)
(*     [t, s, n, c, o]                                                     *)
(* t the kind, s the characters of a string, n the number, c the class of  *)
(* an object and o its own enumerable properties in insertion order, each  *)
(* [k |-> name, v |-> value].  Property names are TLA+ strings.            *)
(***************************************************************************)
EXTENDS Integers, Sequences, FiniteSets, TLC

VARIABLES
    client,     \* the PayWayClient instance: base_url, merchant_id, api_key, _client
    pc,         \* per call: "idle", "awaiting", "returned", "raised"
    call,       \* per call: the operation invoked and its arguments
    hashed,     \* per call: the value lists create_hash was invoked with, in order
    posted,     \* per call: the (path, FormData) pairs handed to _client.post
    result,     \* per call: the value returned, or the value thrown
    settled,    \* per call: how the promise of _client.post settled, and with what
    construction \* the constructor's arguments and the calls it made of client_factory

vars == <<client, pc, call, hashed, posted, result, settled, construction>>

-----------------------------------------------------------------------------
(* Characters and bytes *)

Ascii ==
    <<" ","!","\"","#","$","%","&","'","(",")","*","+",",","-",".","/",
      "0","1","2","3","4","5","6","7","8","9",":",";","<","=",">","?",
      "@","A","B","C","D","E","F","G","H","I","J","K","L","M","N","O",
      "P","Q","R","S","T","U","V","W","X","Y","Z","[","\\","]","^","_",
      "<grave>","a","b","c","d","e","f","g","h","i","j","k","l","m","n","o",
      "p","q","r","s","t","u","v","w","x","y","z","{","|","}","~">>

\* Ascii[i] is the character of code 31 + i (code 96 cannot be written in a
\* TLA+ string and has a placeholder; no input uses it).

\* The byte that UTF-8 gives a character (the model's strings are ASCII).
CharCode(ch) ==
    IF ch = "\t" THEN 9
    ELSE IF ch = "\n" THEN 10
    ELSE 31 + (CHOOSE i \in 1..Len(Ascii) : Ascii[i] = ch)

CodeChar(b) ==
    IF b = 9 THEN "\t"
    ELSE IF b = 10 THEN "\n"
    ELSE Ascii[b - 31]

Utf8Encode(s) == [i \in 1..Len(s) |-> CharCode(s[i])]

Utf8Decode(bytes) == [i \in 1..Len(bytes) |-> CodeChar(bytes[i])]

\* String.prototype.trim strips these (the ASCII part of WhiteSpace and
\* LineTerminator).
WhiteSpace == {" ", "\t", "\n"}

RECURSIVE TrimStart(_)
TrimStart(s) ==
    IF s = <<>> THEN <<>>
    ELSE IF Head(s) \in WhiteSpace THEN TrimStart(Tail(s))
    ELSE s

RECURSIVE TrimEnd(_)
TrimEnd(s) ==
    IF s = <<>> THEN <<>>
    ELSE IF s[Len(s)] \in WhiteSpace THEN TrimEnd(SubSeq(s, 1, Len(s) - 1))
    ELSE s

StringTrim(s) == TrimEnd(TrimStart(s))

\* s includes w as a substring.
Includes(s, w) ==
    \E i \in 0..(Len(s) - Len(w)) : SubSeq(s, i + 1, i + Len(w)) = w

Digit(d) == CodeChar(CharCode("0") + d)

RECURSIVE NatToString(_)
NatToString(n) ==
    IF n < 10 THEN <<Digit(n)>>
    ELSE NatToString(n \div 10) \o <<Digit(n % 10)>>

IntToString(n) == IF n < 0 THEN <<"-">> \o NatToString(-n) ELSE NatToString(n)

Pad2(n) == <<Digit((n \div 10) % 10), Digit(n % 10)>>

-----------------------------------------------------------------------------
(* Base64 (standard alphabet, with padding) *)

Base64Alphabet ==
    <<"A","B","C","D","E","F","G","H","I","J","K","L","M","N","O","P",
      "Q","R","S","T","U","V","W","X","Y","Z","a","b","c","d","e","f",
      "g","h","i","j","k","l","m","n","o","p","q","r","s","t","u","v",
      "w","x","y","z","0","1","2","3","4","5","6","7","8","9","+","/">>

Base64Group(b) ==
    LET b1 == b[1]
        b2 == IF Len(b) > 1 THEN b[2] ELSE 0
        b3 == IF Len(b) > 2 THEN b[3] ELSE 0
        w  == b1 * 65536 + b2 * 256 + b3
    IN  << Base64Alphabet[(w \div 262144) + 1],
           Base64Alphabet[((w \div 4096) % 64) + 1],
           IF Len(b) > 1 THEN Base64Alphabet[((w \div 64) % 64) + 1] ELSE "=",
           IF Len(b) > 2 THEN Base64Alphabet[(w % 64) + 1] ELSE "=" >>

RECURSIVE Base64Encode(_)
Base64Encode(bytes) ==
    IF bytes = <<>> THEN <<>>
    ELSE IF Len(bytes) <= 3 THEN Base64Group(bytes)
    ELSE Base64Group(SubSeq(bytes, 1, 3))
            \o Base64Encode(SubSeq(bytes, 4, Len(bytes)))

Base64Index(ch) == (CHOOSE i \in 1..Len(Base64Alphabet) : Base64Alphabet[i] = ch) - 1

Base64Quad(q) ==
    LET v(i) == IF q[i] = "=" THEN 0 ELSE Base64Index(q[i])
        w    == v(1) * 262144 + v(2) * 4096 + v(3) * 64 + v(4)
        all  == <<w \div 65536, (w \div 256) % 256, w % 256>>
    IN  IF q[3] = "=" THEN SubSeq(all, 1, 1)
        ELSE IF q[4] = "=" THEN SubSeq(all, 1, 2)
        ELSE all

RECURSIVE Base64Decode(_)
Base64Decode(chars) ==
    IF Len(chars) < 4 THEN <<>>
    ELSE Base64Quad(SubSeq(chars, 1, 4))
            \o Base64Decode(SubSeq(chars, 5, Len(chars)))

-----------------------------------------------------------------------------
(* String literals of the source and of the runtime *)

\* "undefined"
StrUndefined ==
    <<"u","n","d","e","f","i","n","e","d">>

\* "null"
StrNull ==
    <<"n","u","l","l">>

\* "NaN"
StrNaN ==
    <<"N","a","N">>

\* "true"
StrTrue ==
    <<"t","r","u","e">>

\* "false"
StrFalse ==
    <<"f","a","l","s","e">>

\* "[object Object]"
StrObjectObject ==
    <<"[","o","b","j","e","c","t"," ","O","b","j","e","c","t","]">>

\* "purchase"
StrPurchase ==
    <<"p","u","r","c","h","a","s","e">>

\* "USD"
StrUSD ==
    <<"U","S","D">>

\* "KHR"
StrKHR ==
    <<"K","H","R">>

\* "multipart/form-data"
StrMultipartFormData ==
    <<"m","u","l","t","i","p","a","r","t","/","f","o","r","m","-","d","a","t","a">>

\* "create_transaction: tran_id is required and must be a string"
MsgCreateTranId ==
    <<"c","r","e","a","t","e","_","t","r","a","n","s","a","c","t","i","o","n",
      ":"," ","t","r","a","n","_","i","d"," ","i","s"," ","r","e","q","u","i",
      "r","e","d"," ","a","n","d"," ","m","u","s","t"," ","b","e"," ","a"," ",
      "s","t","r","i","n","g">>

\* "create_transaction: payment_option is required and must be a string"
MsgCreatePaymentOption ==
    <<"c","r","e","a","t","e","_","t","r","a","n","s","a","c","t","i","o","n",
      ":"," ","p","a","y","m","e","n","t","_","o","p","t","i","o","n"," ","i",
      "s"," ","r","e","q","u","i","r","e","d"," ","a","n","d"," ","m","u","s",
      "t"," ","b","e"," ","a"," ","s","t","r","i","n","g">>

\* "create_transaction: amount is required"
MsgCreateAmount ==
    <<"c","r","e","a","t","e","_","t","r","a","n","s","a","c","t","i","o","n",
      ":"," ","a","m","o","u","n","t"," ","i","s"," ","r","e","q","u","i","r",
      "e","d">>

\* create_transaction: currency is required and must be "USD" or "KHR"
MsgCreateCurrency ==
    <<"c","r","e","a","t","e","_","t","r","a","n","s","a","c","t","i","o","n",
      ":"," ","c","u","r","r","e","n","c","y"," ","i","s"," ","r","e","q","u",
      "i","r","e","d"," ","a","n","d"," ","m","u","s","t"," ","b","e"," ",
      "\"","U","S","D","\""," ","o","r"," ","\"","K","H","R","\"">>

\* "check_transaction: tran_id is required and must be a string"
MsgCheckTranId ==
    <<"c","h","e","c","k","_","t","r","a","n","s","a","c","t","i","o","n",":",
      " ","t","r","a","n","_","i","d"," ","i","s"," ","r","e","q","u","i","r",
      "e","d"," ","a","n","d"," ","m","u","s","t"," ","b","e"," ","a"," ","s",
      "t","r","i","n","g">>

\* "transaction_list: from_date must be a string in YYYYMMDD format"
MsgListFromDate ==
    <<"t","r","a","n","s","a","c","t","i","o","n","_","l","i","s","t",":"," ",
      "f","r","o","m","_","d","a","t","e"," ","m","u","s","t"," ","b","e"," ",
      "a"," ","s","t","r","i","n","g"," ","i","n"," ","Y","Y","Y","Y","M","M",
      "D","D"," ","f","o","r","m","a","t">>

\* "transaction_list: to_date must be a string in YYYYMMDD format"
MsgListToDate ==
    <<"t","r","a","n","s","a","c","t","i","o","n","_","l","i","s","t",":"," ",
      "t","o","_","d","a","t","e"," ","m","u","s","t"," ","b","e"," ","a"," ",
      "s","t","r","i","n","g"," ","i","n"," ","Y","Y","Y","Y","M","M","D","D",
      " ","f","o","r","m","a","t">>

\* "PayWay API error: "
MsgApiErrorPrefix ==
    <<"P","a","y","W","a","y"," ","A","P","I"," ","e","r","r","o","r",":",
      " ">>

\* "Unknown error"
MsgUnknownError ==
    <<"U","n","k","n","o","w","n"," ","e","r","r","o","r">>

\* "Network error: No response received from PayWay API"
MsgNetworkError ==
    <<"N","e","t","w","o","r","k"," ","e","r","r","o","r",":"," ","N","o"," ",
      "r","e","s","p","o","n","s","e"," ","r","e","c","e","i","v","e","d"," ",
      "f","r","o","m"," ","P","a","y","W","a","y"," ","A","P","I">>

\* "Request error: "
MsgRequestErrorPrefix ==
    <<"R","e","q","u","e","s","t"," ","e","r","r","o","r",":"," ">>

\* "hash_values is not iterable"
MsgNotIterable ==
    <<"h","a","s","h","_","v","a","l","u","e","s"," ","i","s"," ","n","o","t",
      " ","i","t","e","r","a","b","l","e">>

\* "Cannot convert undefined or null to object"
MsgNullToObject ==
    <<"C","a","n","n","o","t"," ","c","o","n","v","e","r","t"," ","u","n","d",
      "e","f","i","n","e","d"," ","o","r"," ","n","u","l","l"," ","t","o"," ",
      "o","b","j","e","c","t">>

\* "Invalid time value"
MsgInvalidTime ==
    <<"I","n","v","a","l","i","d"," ","t","i","m","e"," ","v","a","l","u",
      "e">>

\* "values.join is not a function"
MsgJoinNotFunction ==
    <<"v","a","l","u","e","s",".","j","o","i","n"," ","i","s"," ","n","o","t"," ",
      "a"," ","f","u","n","c","t","i","o","n">>

\* "this._client.post is not a function"
MsgPostNotFunction ==
    <<"t","h","i","s",".","_","c","l","i","e","n","t",".","p","o","s","t"," ",
      "i","s"," ","n","o","t"," ","a"," ","f","u","n","c","t","i","o","n">>

\* "Cannot read properties of undefined or null"
MsgReadOfNullish ==
    <<"C","a","n","n","o","t"," ","r","e","a","d"," ","p","r","o","p","e","r",
      "t","i","e","s"," ","o","f"," ","u","n","d","e","f","i","n","e","d"," ",
      "o","r"," ","n","u","l","l">>

\* "Cannot destructure 'object null' as it is null."
MsgDestructureNull ==
    <<"C","a","n","n","o","t"," ","d","e","s","t","r","u","c","t","u","r","e",
      " ","'","o","b","j","e","c","t"," ","n","u","l","l","'"," ","a","s"," ",
      "i","t"," ","i","s"," ","n","u","l","l",".">>

\* "Converting circular structure to JSON"
MsgCircular ==
    <<"C","o","n","v","e","r","t","i","n","g"," ","c","i","r","c","u","l","a",
      "r"," ","s","t","r","u","c","t","u","r","e"," ","t","o"," ","J","S","O",
      "N">>

\* "PayWayError"
NamePayWayError ==
    <<"P","a","y","W","a","y","E","r","r","o","r">>

\* "PayWayRequestError"
NamePayWayRequestError ==
    <<"P","a","y","W","a","y","R","e","q","u","e","s","t","E","r","r","o",
      "r">>

-----------------------------------------------------------------------------
(* JavaScript values *)

Js(t, s, n, c, o) == [t |-> t, s |-> s, n |-> n, c |-> c, o |-> o]

Undefined     == Js("undefined", <<>>, 0, "", <<>>)
Null          == Js("null", <<>>, 0, "", <<>>)
JsString(s)   == Js("string", s, 0, "", <<>>)
JsNumber(n)   == Js("number", <<>>, n, "", <<>>)
NaN           == Js("number", <<>>, 0, "NaN", <<>>)
JsBoolean(b)  == Js("boolean", <<>>, IF b THEN 1 ELSE 0, "", <<>>)
JsObject(c, props) == Js("object", <<>>, 0, c, props)
Prop(k, v)    == [k |-> k, v |-> v]
JsArray(elems) ==
    JsObject("Array", [i \in 1..Len(elems) |-> Prop(ToString(i - 1), elems[i])])
\* A Date n seconds after the epoch; InvalidDate is new Date(NaN).
JsDate(n)     == Js("object", <<>>, n, "Date", <<>>)
InvalidDate   == Js("object", <<>>, -1, "Date", <<>>)

\* typeof v
typeof(v) == IF v.t = "null" THEN "object" ELSE v.t

\* v == null
IsNullish(v) == v.t \in {"undefined", "null"}

\* ToBoolean(v), as in !v and v || w
Truthy(v) ==
    CASE v.t \in {"undefined", "null"} -> FALSE
      [] v.t = "string"  -> v.s # <<>>
      [] v.t = "number"  -> v.c # "NaN" /\ v.n # 0
      [] v.t = "boolean" -> v.n = 1
      [] OTHER           -> TRUE

HasOwn(v, k) == \E i \in 1..Len(v.o) : v.o[i].k = k

\* v[k] for a v that is not null or undefined (reading a property of those
\* throws, which the callers decide before they call Get).
Get(v, k) ==
    IF HasOwn(v, k)
    THEN v.o[CHOOSE i \in 1..Len(v.o) : v.o[i].k = k /\ \A j \in (i+1)..Len(v.o) : v.o[j].k # k].v
    ELSE Undefined

\* v?.[k]
GetOptional(v, k) == IF IsNullish(v) THEN Undefined ELSE Get(v, k)

\* a || b
Or(a, b) == IF Truthy(a) THEN a ELSE b

\* a ?? b
Coalesce(a, b) == IF IsNullish(a) THEN b ELSE a

ErrorClasses == {"Error", "TypeError", "RangeError", "PayWayError", "PayWayRequestError"}

\* The prototype chain of the classes the model uses.
SuperClasses(c) ==
    CASE c = "PayWayRequestError" -> {"PayWayRequestError", "PayWayError", "Error"}
      [] c = "PayWayError"        -> {"PayWayError", "Error"}
      [] c = "TypeError"          -> {"TypeError", "Error"}
      [] c = "RangeError"         -> {"RangeError", "Error"}
      [] OTHER                    -> {c}

\* v instanceof cls
InstanceOf(v, cls) == v.t = "object" /\ cls \in SuperClasses(v.c)

RECURSIVE JsToString(_)
RECURSIVE ArrayJoin(_, _)

\* Array.prototype.join over a list of values: null and undefined give "".
ArrayJoin(values, sep) ==
    IF values = <<>> THEN <<>>
    ELSE LET h == IF IsNullish(Head(values)) THEN <<>> ELSE JsToString(Head(values))
         IN  IF Len(values) = 1 THEN h
             ELSE h \o sep \o ArrayJoin(Tail(values), sep)

\* String(v), for the primitives, arrays and plain objects.
JsToString(v) ==
    CASE v.t = "undefined" -> StrUndefined
      [] v.t = "null"      -> StrNull
      [] v.t = "string"    -> v.s
      [] v.t = "number"    -> IF v.c = "NaN" THEN StrNaN ELSE IntToString(v.n)
      [] v.t = "boolean"   -> IF v.n = 1 THEN StrTrue ELSE StrFalse
      [] v.t = "object" /\ v.c = "Array" ->
            ArrayJoin([i \in 1..Len(v.o) |-> v.o[i].v], <<",">>)
      [] v.t = "object" /\ v.c = "Object" -> StrObjectObject

\* new Error(message) and its built-in subclasses: message is the one own
\* property.
NewError(cls, message) == JsObject(cls, <<Prop("message", JsString(message))>>)

-----------------------------------------------------------------------------
(* Completion records: what evaluating a piece of code ends in *)

Normal(v) == [threw |-> FALSE, v |-> v]
Throw(e)  == [threw |-> TRUE, v |-> e]

-----------------------------------------------------------------------------
(* date-fns format(date, "yyyyMMddHHmmss"), for the dates of January 1970 UTC *)

DateIsValid(d) == d.n >= 0

FormatDate(d) ==
    LET day == d.n \div 86400
        sec == d.n % 86400
    IN  <<"1","9","7","0">> \o <<"0","1">> \o Pad2(day + 1)
          \o Pad2(sec \div 3600) \o Pad2((sec \div 60) % 60) \o Pad2(sec % 60)

format(date) ==
    IF DateIsValid(date) THEN Normal(JsString(FormatDate(date)))
    ELSE Throw(NewError("RangeError", MsgInvalidTime))

-----------------------------------------------------------------------------
(* JSON.stringify *)

\* The characters of the property names that the inputs serialize.
KeyChars(k) ==
    CASE k = "android_scheme" -> <<"a","n","d","r","o","i","d","_","s","c","h","e","m","e">>
      [] k = "ios_scheme"     -> <<"i","o","s","_","s","c","h","e","m","e">>
      [] k = "name"           -> <<"n","a","m","e">>
      [] k = "quantity"       -> <<"q","u","a","n","t","i","t","y">>
      [] k = "price"          -> <<"p","r","i","c","e">>
      [] k = "self"           -> <<"s","e","l","f">>

\* A reference from inside an object back to the object itself.
Cycle == Js("object", <<>>, 0, "Cycle", <<>>)

RECURSIVE HasCycle(_)
HasCycle(v) ==
    v.t = "object"
    /\ (v.c = "Cycle" \/ \E i \in 1..Len(v.o) : HasCycle(v.o[i].v))

RECURSIVE JsonQuoteChars(_)
JsonQuoteChars(s) ==
    IF s = <<>> THEN <<>>
    ELSE LET ch == Head(s)
             e  == CASE ch = "\"" -> <<"\\", "\"">>
                     [] ch = "\\" -> <<"\\", "\\">>
                     [] ch = "\n" -> <<"\\", "n">>
                     [] ch = "\t" -> <<"\\", "t">>
                     [] OTHER     -> <<ch>>
         IN  e \o JsonQuoteChars(Tail(s))

JsonQuote(s) == <<"\"">> \o JsonQuoteChars(s) \o <<"\"">>

\* Whether JSON.stringify gives a value no text at all (an object property
\* holding it is left out).
JsonOmitted(v) == v.t \in {"undefined", "function"}

RECURSIVE JsonText(_)
RECURSIVE JsonMembers(_, _)
RECURSIVE JsonElements(_)

JsonMembers(props, first) ==
    IF props = <<>> THEN <<>>
    ELSE IF JsonOmitted(Head(props).v) THEN JsonMembers(Tail(props), first)
    ELSE (IF first THEN <<>> ELSE <<",">>)
            \o JsonQuote(KeyChars(Head(props).k)) \o <<":">> \o JsonText(Head(props).v)
            \o JsonMembers(Tail(props), FALSE)

JsonElements(props) ==
    IF props = <<>> THEN <<>>
    ELSE (IF JsonOmitted(Head(props).v) THEN StrNull ELSE JsonText(Head(props).v))
            \o (IF Len(props) > 1 THEN <<",">> ELSE <<>>)
            \o JsonElements(Tail(props))

\* The text of a value that has one and holds no cycle.
JsonText(v) ==
    CASE v.t = "null"    -> StrNull
      [] v.t = "string"  -> JsonQuote(v.s)
      [] v.t = "number"  -> IF v.c = "NaN" THEN StrNull ELSE IntToString(v.n)
      [] v.t = "boolean" -> IF v.n = 1 THEN StrTrue ELSE StrFalse
      [] v.t = "object" /\ v.c = "Array"  -> <<"[">> \o JsonElements(v.o) \o <<"]">>
      [] v.t = "object" /\ v.c = "Object" -> <<"{">> \o JsonMembers(v.o, TRUE) \o <<"}">>

\* JSON.stringify(v) for an object v.
JsonStringify(v) ==
    IF HasCycle(v) THEN Throw(NewError("TypeError", MsgCircular))
    ELSE Normal(JsString(JsonText(v)))

-----------------------------------------------------------------------------
(* src/index.js: trim, the error classes *)

\* Faulty variant: String(value).trim().
trim_stringifies(value) == JsString(StringTrim(JsToString(value)))

trim(value) ==
    IF typeof(value) = "string" THEN JsString(StringTrim(value.s)) ELSE value

\* Faulty variant: details is the details field of the body, not the body.
PayWayErrorPropsDetailsField(message, response, statusCode) ==
    LET r  == IF response = Undefined THEN Null ELSE response
        sc == IF statusCode = Undefined THEN Null ELSE statusCode
    IN  << Prop("message", JsString(message)),
           Prop("name", JsString(NamePayWayError)),
           Prop("errorCode", Or(GetOptional(r, "code"), Null)),
           Prop("statusCode", sc),
           Prop("details", Or(GetOptional(r, "details"), Null)),
           Prop("response", r) >>

\* new PayWayError(message, response, statusCode); a parameter that is
\* undefined takes its default, null.
PayWayErrorProps(message, response, statusCode) ==
    LET r  == IF response = Undefined THEN Null ELSE response
        sc == IF statusCode = Undefined THEN Null ELSE statusCode
    IN  << Prop("message", JsString(message)),
           Prop("name", JsString(NamePayWayError)),
           Prop("errorCode", Or(GetOptional(r, "code"), Null)),
           Prop("statusCode", sc),
           Prop("details", Or(r, Null)),
           Prop("response", r) >>

PayWayError(message, response, statusCode) ==
    JsObject("PayWayError", PayWayErrorProps(message, response, statusCode))

\* new PayWayRequestError(message, originalError): super(message), then name
\* is overwritten and originalError added.
PayWayRequestError(message, originalError) ==
    LET base == PayWayErrorProps(message, Undefined, Undefined)
        oe   == IF originalError = Undefined THEN Null ELSE originalError
    IN  JsObject("PayWayRequestError",
            [i \in 1..Len(base) |->
                IF base[i].k = "name"
                THEN Prop("name", JsString(NamePayWayRequestError))
                ELSE base[i]]
            \o <<Prop("originalError", oe)>>)

-----------------------------------------------------------------------------
(* src/index.js: PayWayClient.create_hash, create_payload *)

\* createHmac("sha512", key).update(data).digest("base64"): a string that
\* stands for the digest of data under key, different for different (key, data).
HmacSha512Base64(key, data) ==
    Js("string", data, 0, "HmacSha512Base64", <<Prop("key", key)>>)

\* Faulty variant: the values are joined with the default separator,
\* values.join().
create_hash_default_separator(self, values) ==
    HmacSha512Base64(self.api_key, ArrayJoin(values, <<",">>))

create_hash(self, values) ==
    HmacSha512Base64(self.api_key, ArrayJoin(values, <<>>))

\* Object.entries(v) for a v that is not null or undefined.
ObjectEntries(v) ==
    CASE v.t = "object" -> v.o
      [] v.t = "string" ->
            [i \in 1..Len(v.s) |-> Prop(ToString(i - 1), JsString(<<v.s[i]>>))]
      [] OTHER -> <<>>

IsIterable(v) == v.t = "string" \/ (v.t = "object" /\ v.c = "Array")

\* The values that ...v spreads, for an iterable v.
SpreadOf(v) ==
    IF v.t = "string" THEN [i \in 1..Len(v.s) |-> JsString(<<v.s[i]>>)]
    ELSE [i \in 1..Len(v.o) |-> v.o[i].v]

\* FormData.append(name, value) of formdata-node: a value that is no Blob is
\* stored as String(value).
FormDataAppend(form, name, value) ==
    Append(form, Prop(name, IF value.t = "string" THEN value ELSE JsString(JsToString(value))))

\* Faulty variant: the body fields are appended last to first.
RECURSIVE FormDataAppendAllReversed(_, _)
FormDataAppendAllReversed(form, entries) ==
    IF entries = <<>> THEN form
    ELSE FormDataAppendAllReversed(
            Append(form, Prop(entries[Len(entries)].k,
                              JsString(JsToString(entries[Len(entries)].v)))),
            SubSeq(entries, 1, Len(entries) - 1))

RECURSIVE FormDataAppendAll(_, _)
FormDataAppendAll(form, entries) ==
    IF entries = <<>> THEN form
    ELSE FormDataAppendAll(FormDataAppend(form, Head(entries).k, Head(entries).v),
                           Tail(entries))

\* Faulty variant: the filter keeps the truthy values, (v) => v.
NotNullishTruthy(e) == Truthy(e.v)

NotNullish(e) == ~IsNullish(e.v)

\* create_payload(hash_values, body = {}, date = new Date()); now is the value
\* of new Date().  The completion carries the FormData (or the exception) and
\* the value lists handed to create_hash.
create_payload(self, hash_values, body, date, now) ==
    LET body0 == IF body = Undefined THEN JsObject("Object", <<>>) ELSE body
        date0 == IF date = Undefined THEN now ELSE date
    IN  IF IsNullish(body0)
        THEN [c |-> Throw(NewError("TypeError", MsgNullToObject)), hashed |-> <<>>]
        ELSE
        LET body1    == SelectSeq(ObjectEntries(body0), NotNullish)
            req_time == format(date0)
        IN  IF req_time.threw
            THEN [c |-> req_time, hashed |-> <<>>]
            ELSE IF ~IsIterable(hash_values)
            THEN [c |-> Throw(NewError("TypeError", MsgNotIterable)), hashed |-> <<>>]
            ELSE
            LET merchant_id == self.merchant_id
                values == <<req_time.v, merchant_id>> \o SpreadOf(hash_values)
                hash   == create_hash(self, values)
                f1     == FormDataAppend(<<>>, "req_time", req_time.v)
                f2     == FormDataAppend(f1, "merchant_id", merchant_id)
                f3     == FormDataAppendAll(f2, body1)
                f4     == FormDataAppend(f3, "hash", hash)
            IN  [c |-> Normal(JsObject("FormData", f4)), hashed |-> <<values>>]

-----------------------------------------------------------------------------
(* src/index.js: PayWayClient._handle_error *)

\* Faulty variant: the message of the transport error comes before the message
\* of the response body.
_handle_error_own_message_first(error) ==
    IF IsNullish(error) THEN NewError("TypeError", MsgReadOfNullish)
    ELSE IF Truthy(Get(error, "response")) THEN
        LET statusCode == GetOptional(Get(error, "response"), "status")
            errorData  == GetOptional(Get(error, "response"), "data")
            text       == Or(Or(Get(error, "message"), GetOptional(errorData, "message")),
                             JsString(MsgUnknownError))
        IN  PayWayError(MsgApiErrorPrefix \o JsToString(text), errorData, statusCode)
    ELSE IF Truthy(Get(error, "request")) THEN
        PayWayRequestError(MsgNetworkError, error)
    ELSE
        PayWayRequestError(MsgRequestErrorPrefix \o JsToString(Get(error, "message")), error)

\* Faulty variant: the sent request is looked at before the received response.
_handle_error_request_first(error) ==
    IF IsNullish(error) THEN NewError("TypeError", MsgReadOfNullish)
    ELSE IF Truthy(Get(error, "request")) THEN
        PayWayRequestError(MsgNetworkError, error)
    ELSE IF Truthy(Get(error, "response")) THEN
        LET statusCode == GetOptional(Get(error, "response"), "status")
            errorData  == GetOptional(Get(error, "response"), "data")
            text       == Or(Or(GetOptional(errorData, "message"), Get(error, "message")),
                             JsString(MsgUnknownError))
        IN  PayWayError(MsgApiErrorPrefix \o JsToString(text), errorData, statusCode)
    ELSE
        PayWayRequestError(MsgRequestErrorPrefix \o JsToString(Get(error, "message")), error)

\* The value _handle_error(error) throws.
_handle_error(error) ==
    IF IsNullish(error) THEN NewError("TypeError", MsgReadOfNullish)
    ELSE IF Truthy(Get(error, "response")) THEN
        LET statusCode == GetOptional(Get(error, "response"), "status")
            errorData  == GetOptional(Get(error, "response"), "data")
            text       == Or(Or(GetOptional(errorData, "message"), Get(error, "message")),
                             JsString(MsgUnknownError))
        IN  PayWayError(MsgApiErrorPrefix \o JsToString(text), errorData, statusCode)
    ELSE IF Truthy(Get(error, "request")) THEN
        PayWayRequestError(MsgNetworkError, error)
    ELSE
        PayWayRequestError(MsgRequestErrorPrefix \o JsToString(Get(error, "message")), error)

-----------------------------------------------------------------------------
(* The synchronous part of an operation: from the call to its first await *)

PathPurchase         == "/api/payment-gateway/v1/payments/purchase"
PathCheckTransaction == "/api/payment-gateway/v1/payments/check-transaction"
PathTransactionList  == "/api/payment-gateway/v1/payments/transaction-list"

\* Faulty variant: the request is sent a second time before the operation
\* awaits.
AwaitingSecondAttempt(transport, hs, path, data) ==
    [pc |-> "awaiting", result |-> Undefined,
     hashed |-> hs,
     posted |-> <<[via |-> transport, path |-> path, data |-> data],
                  [via |-> transport, path |-> path, data |-> data]>>]

\* Faulty variant: the catch block throws the exception on as it is.
CaughtThrownOn(e, hs) == [pc |-> "raised", result |-> e, hashed |-> hs, posted |-> <<>>]

\* How far an operation got: it threw e outside its try block, it threw e
\* inside (so _handle_error decides what is raised), or it called post of
\* transport and awaits the promise.
Raised(e)         == [pc |-> "raised", result |-> e, hashed |-> <<>>, posted |-> <<>>]
Caught(e, hs)     == [pc |-> "raised", result |-> _handle_error(e),
                      hashed |-> hs, posted |-> <<>>]
Awaiting(transport, hs, path, data) ==
    [pc |-> "awaiting", result |-> Undefined, hashed |-> hs,
     posted |-> <<[via |-> transport, path |-> path, data |-> data]>>]

\* Faulty variant: the error of a transport without post names the client's
\* credentials, for diagnosis.
PostPayloadNamesKey(self, path, hash_values, body, now) ==
    IF IsNullish(self._client) THEN Caught(NewError("TypeError", MsgReadOfNullish), <<>>)
    ELSE LET p == create_payload(self, hash_values, body, Undefined, now)
         IN  IF p.c.threw THEN Caught(p.c.v, p.hashed)
             ELSE IF typeof(Get(self._client, "post")) # "function"
             THEN Caught(NewError("TypeError",
                                  MsgPostNotFunction \o <<" ">> \o self.api_key.s),
                         p.hashed)
             ELSE Awaiting(self._client, p.hashed, path, p.c.v)

\* this._client.post(path, this.create_payload(hash_values, body)): the callee
\* is looked up, then the argument is evaluated, then the call is made.
PostPayload(self, path, hash_values, body, now) ==
    IF IsNullish(self._client) THEN Caught(NewError("TypeError", MsgReadOfNullish), <<>>)
    ELSE LET p == create_payload(self, hash_values, body, Undefined, now)
         IN  IF p.c.threw THEN Caught(p.c.v, p.hashed)
             ELSE IF typeof(Get(self._client, "post")) # "function"
             THEN Caught(NewError("TypeError", MsgPostNotFunction), p.hashed)
             ELSE Awaiting(self._client, p.hashed, path, p.c.v)

\* (v) => (v == null ? "" : String(v))
Stringify(v) == IF IsNullish(v) THEN JsString(<<>>) ELSE JsString(JsToString(v))

-----------------------------------------------------------------------------
(* src/index.js: PayWayClient.create_transaction *)

\* The destructured parameters: a missing property reads undefined, and type
\* takes its default when it is undefined.
CreateTransactionParams(options) ==
    LET o == IF options = Undefined THEN JsObject("Object", <<>>) ELSE options
    IN  [ tran_id              |-> Get(o, "tran_id"),
          payment_option       |-> Get(o, "payment_option"),
          amount               |-> Get(o, "amount"),
          currency             |-> Get(o, "currency"),
          return_url           |-> Get(o, "return_url"),
          return_deeplink      |-> Get(o, "return_deeplink"),
          continue_success_url |-> Get(o, "continue_success_url"),
          pwt                  |-> Get(o, "pwt"),
          firstname            |-> Get(o, "firstname"),
          lastname             |-> Get(o, "lastname"),
          email                |-> Get(o, "email"),
          phone                |-> Get(o, "phone"),
          items                |-> Get(o, "items"),
          type                 |-> IF Get(o, "type") = Undefined
                                   THEN JsString(StrPurchase) ELSE Get(o, "type"),
          custom_fields        |-> Get(o, "custom_fields") ]

\* Faulty variant: amount is checked before payment_option.
CreateTransactionValidateAmountFirst(a) ==
    IF ~Truthy(a.tran_id) \/ typeof(a.tran_id) # "string"
    THEN Throw(NewError("Error", MsgCreateTranId))
    ELSE IF a.amount = Undefined \/ a.amount = Null
    THEN Throw(NewError("Error", MsgCreateAmount))
    ELSE IF ~Truthy(a.payment_option) \/ typeof(a.payment_option) # "string"
    THEN Throw(NewError("Error", MsgCreatePaymentOption))
    ELSE IF ~Truthy(a.currency)
            \/ (a.currency # JsString(StrUSD) /\ a.currency # JsString(StrKHR))
    THEN Throw(NewError("Error", MsgCreateCurrency))
    ELSE Normal(Undefined)

\* Faulty variant: any currency that is given is accepted.
CreateTransactionValidateAnyCurrency(a) ==
    IF ~Truthy(a.tran_id) \/ typeof(a.tran_id) # "string"
    THEN Throw(NewError("Error", MsgCreateTranId))
    ELSE IF ~Truthy(a.payment_option) \/ typeof(a.payment_option) # "string"
    THEN Throw(NewError("Error", MsgCreatePaymentOption))
    ELSE IF a.amount = Undefined \/ a.amount = Null
    THEN Throw(NewError("Error", MsgCreateAmount))
    ELSE IF ~Truthy(a.currency)
    THEN Throw(NewError("Error", MsgCreateCurrency))
    ELSE Normal(Undefined)

\* Parameter validation: the error thrown, or a normal completion.
CreateTransactionValidate(a) ==
    IF ~Truthy(a.tran_id) \/ typeof(a.tran_id) # "string"
    THEN Throw(NewError("Error", MsgCreateTranId))
    ELSE IF ~Truthy(a.payment_option) \/ typeof(a.payment_option) # "string"
    THEN Throw(NewError("Error", MsgCreatePaymentOption))
    ELSE IF a.amount = Undefined \/ a.amount = Null
    THEN Throw(NewError("Error", MsgCreateAmount))
    ELSE IF ~Truthy(a.currency)
            \/ (a.currency # JsString(StrUSD) /\ a.currency # JsString(StrKHR))
    THEN Throw(NewError("Error", MsgCreateCurrency))
    ELSE Normal(Undefined)

\* function base64(d) { return Buffer.from(d).toString("base64") }, d a string
base64(d) == JsString(Base64Encode(Utf8Encode(d.s)))

\* Faulty variant: return_url is passed on as it is.
EncodeReturnUrlPlain(return_url) == Normal(return_url)

EncodeReturnUrl(return_url) ==
    IF typeof(return_url) = "string" THEN Normal(base64(return_url))
    ELSE Normal(return_url)

EncodeReturnDeeplink(return_deeplink) ==
    IF typeof(return_deeplink) = "object" /\ ~IsNullish(return_deeplink)
    THEN LET j == JsonStringify(return_deeplink)
         IN  IF j.threw THEN j ELSE Normal(base64(j.v))
    ELSE IF typeof(return_deeplink) = "string" THEN Normal(base64(return_deeplink))
    ELSE Normal(return_deeplink)

\* Faulty variant: only a string is encoded, as for return_url; an object is
\* passed on as it is.
EncodeItemsStringOnly(items) ==
    IF typeof(items) = "string" THEN Normal(base64(items)) ELSE Normal(items)

EncodeItems(items) ==
    IF typeof(items) = "object" /\ ~IsNullish(items)
    THEN LET j == JsonStringify(items)
         IN  IF j.threw THEN j ELSE Normal(base64(j.v))
    ELSE IF typeof(items) = "string" THEN Normal(base64(items))
    ELSE Normal(items)

\* Faulty variant: the body is built in the order of the hash input.
CreateTransactionPayloadDataHashOrder(a, encoded_return_url, encoded_return_deeplink, encoded_items) ==
    JsObject("Object",
      << Prop("tran_id", a.tran_id),
         Prop("amount", a.amount),
         Prop("items", encoded_items),
         Prop("firstname", trim(a.firstname)),
         Prop("lastname", trim(a.lastname)),
         Prop("email", trim(a.email)),
         Prop("phone", trim(a.phone)),
         Prop("type", a.type),
         Prop("payment_option", a.payment_option),
         Prop("continue_success_url", a.continue_success_url),
         Prop("return_url", encoded_return_url),
         Prop("return_deeplink", encoded_return_deeplink),
         Prop("currency", a.currency),
         Prop("custom_fields", a.custom_fields),
         Prop("pwt", a.pwt) >>)

\* const payloadData = { ... }: 15 properties in this order.
CreateTransactionPayloadData(a, encoded_return_url, encoded_return_deeplink, encoded_items) ==
    JsObject("Object",
      << Prop("tran_id", a.tran_id),
         Prop("amount", a.amount),
         Prop("pwt", a.pwt),
         Prop("firstname", trim(a.firstname)),
         Prop("lastname", trim(a.lastname)),
         Prop("email", trim(a.email)),
         Prop("phone", trim(a.phone)),
         Prop("items", encoded_items),
         Prop("type", a.type),
         Prop("payment_option", a.payment_option),
         Prop("return_url", encoded_return_url),
         Prop("continue_success_url", a.continue_success_url),
         Prop("return_deeplink", encoded_return_deeplink),
         Prop("currency", a.currency),
         Prop("custom_fields", a.custom_fields) >>)

\* Faulty variant: the hash input takes the values in the order of the body, as the
\* client did before v0.4.0.
CreateTransactionHashValuesBodyOrder(payloadData) ==
    JsArray([i \in 1..Len(payloadData.o) |-> Stringify(payloadData.o[i].v)])

\* Faulty variant: a missing value is dropped from the hash input, as it is from the
\* body, instead of taking part as the empty string.
CreateTransactionHashValuesFiltered(payloadData) ==
    LET raw == << Get(payloadData, "tran_id"), Get(payloadData, "amount"),
                  Get(payloadData, "items"), Get(payloadData, "firstname"),
                  Get(payloadData, "lastname"), Get(payloadData, "email"),
                  Get(payloadData, "phone"), Get(payloadData, "type"),
                  Get(payloadData, "payment_option"),
                  Get(payloadData, "continue_success_url"),
                  Get(payloadData, "return_url"), Get(payloadData, "return_deeplink"),
                  Get(payloadData, "currency"), Get(payloadData, "custom_fields"),
                  Get(payloadData, "pwt") >>
        kept == SelectSeq(raw, LAMBDA v : ~IsNullish(v))
    IN  JsArray([i \in 1..Len(kept) |-> Stringify(kept[i])])

\* const hashValues = [ ... ].map(...)
CreateTransactionHashValues(payloadData) ==
    LET e == JsString(<<>>)
        raw == << Get(payloadData, "tran_id"),
                  Get(payloadData, "amount"),
                  Coalesce(Get(payloadData, "items"), e),
                  Coalesce(Get(payloadData, "firstname"), e),
                  Coalesce(Get(payloadData, "lastname"), e),
                  Coalesce(Get(payloadData, "email"), e),
                  Coalesce(Get(payloadData, "phone"), e),
                  Coalesce(Get(payloadData, "type"), e),
                  Coalesce(Get(payloadData, "payment_option"), e),
                  Coalesce(Get(payloadData, "continue_success_url"), e),
                  Coalesce(Get(payloadData, "return_url"), e),
                  Coalesce(Get(payloadData, "return_deeplink"), e),
                  Coalesce(Get(payloadData, "currency"), e),
                  Coalesce(Get(payloadData, "custom_fields"), e),
                  Coalesce(Get(payloadData, "pwt"), e) >>
    IN  JsArray([i \in 1..Len(raw) |-> Stringify(raw[i])])

\* The try block of create_transaction, up to the await.
CreateTransactionSend(self, a, now) ==
    LET u == EncodeReturnUrl(a.return_url)
        d == EncodeReturnDeeplink(a.return_deeplink)
        i == EncodeItems(a.items)
    IN  IF u.threw THEN Caught(u.v, <<>>)
        ELSE IF d.threw THEN Caught(d.v, <<>>)
        ELSE IF i.threw THEN Caught(i.v, <<>>)
        ELSE LET payloadData == CreateTransactionPayloadData(a, u.v, d.v, i.v)
                 hashValues  == CreateTransactionHashValues(payloadData)
             IN  PostPayload(self, PathPurchase, hashValues, payloadData, now)

\* Faulty variant: the request is built and posted first, the parameters are
\* validated after.
create_transaction_validates_late(self, options, now) ==
    IF options = Null THEN Raised(NewError("TypeError", MsgDestructureNull))
    ELSE
    LET a == CreateTransactionParams(options)
        v == CreateTransactionValidate(a)
        r == CreateTransactionSend(self, a, now)
    IN  IF v.threw THEN [r EXCEPT !.pc = "raised", !.result = v.v] ELSE r

create_transaction(self, options, now) ==
    IF options = Null THEN Raised(NewError("TypeError", MsgDestructureNull))
    ELSE
    LET a == CreateTransactionParams(options)
        v == CreateTransactionValidate(a)
    IN  IF v.threw THEN Raised(v.v)
        ELSE CreateTransactionSend(self, a, now)

-----------------------------------------------------------------------------
(* src/index.js: PayWayClient.check_transaction, transaction_list *)

\* Faulty variant: the hash input leaves the tran_id out, create_payload([],
\* { tran_id }).
check_transaction_unsigned_id(self, tran_id, now) ==
    IF ~Truthy(tran_id) \/ typeof(tran_id) # "string"
    THEN Raised(NewError("Error", MsgCheckTranId))
    ELSE PostPayload(self, PathCheckTransaction,
                     JsArray(<<>>),
                     JsObject("Object", <<Prop("tran_id", tran_id)>>), now)

\* Faulty variant: the validation sits inside the try block, so its error goes
\* through _handle_error.
check_transaction_validates_in_try(self, tran_id, now) ==
    IF ~Truthy(tran_id) \/ typeof(tran_id) # "string"
    THEN Caught(NewError("Error", MsgCheckTranId), <<>>)
    ELSE PostPayload(self, PathCheckTransaction,
                     JsArray(<<JsString(JsToString(tran_id))>>),
                     JsObject("Object", <<Prop("tran_id", tran_id)>>), now)

check_transaction(self, tran_id, now) ==
    IF ~Truthy(tran_id) \/ typeof(tran_id) # "string"
    THEN Raised(NewError("Error", MsgCheckTranId))
    ELSE PostPayload(self, PathCheckTransaction,
                     JsArray(<<JsString(JsToString(tran_id))>>),
                     JsObject("Object", <<Prop("tran_id", tran_id)>>), now)

TransactionListParams(options) ==
    LET o == IF options = Undefined THEN JsObject("Object", <<>>) ELSE options
    IN  [ from_date   |-> Get(o, "from_date"),
          to_date     |-> Get(o, "to_date"),
          from_amount |-> Get(o, "from_amount"),
          to_amount   |-> Get(o, "to_amount"),
          status      |-> Get(o, "status") ]

TransactionListValidate(a) ==
    IF Truthy(a.from_date) /\ typeof(a.from_date) # "string"
    THEN Throw(NewError("Error", MsgListFromDate))
    ELSE IF Truthy(a.to_date) /\ typeof(a.to_date) # "string"
    THEN Throw(NewError("Error", MsgListToDate))
    ELSE Normal(Undefined)

TransactionListPayloadData(a) ==
    JsObject("Object",
      << Prop("from_date", a.from_date),
         Prop("to_date", a.to_date),
         Prop("from_amount", a.from_amount),
         Prop("to_amount", a.to_amount),
         Prop("status", a.status) >>)

\* Faulty variant: the amounts are hashed before the dates.
TransactionListHashValuesAmountsFirst(payloadData) ==
    LET e == JsString(<<>>)
        raw == << Coalesce(Get(payloadData, "from_amount"), e),
                  Coalesce(Get(payloadData, "to_amount"), e),
                  Coalesce(Get(payloadData, "from_date"), e),
                  Coalesce(Get(payloadData, "to_date"), e),
                  Coalesce(Get(payloadData, "status"), e) >>
    IN  JsArray([i \in 1..Len(raw) |-> Stringify(raw[i])])

TransactionListHashValues(payloadData) ==
    LET e == JsString(<<>>)
        raw == << Coalesce(Get(payloadData, "from_date"), e),
                  Coalesce(Get(payloadData, "to_date"), e),
                  Coalesce(Get(payloadData, "from_amount"), e),
                  Coalesce(Get(payloadData, "to_amount"), e),
                  Coalesce(Get(payloadData, "status"), e) >>
    IN  JsArray([i \in 1..Len(raw) |-> Stringify(raw[i])])

transaction_list(self, options, now) ==
    IF options = Null THEN Raised(NewError("TypeError", MsgDestructureNull))
    ELSE
    LET a == TransactionListParams(options)
        v == TransactionListValidate(a)
    IN  IF v.threw THEN Raised(v.v)
        ELSE LET payloadData == TransactionListPayloadData(a)
                 hashValues  == TransactionListHashValues(payloadData)
             IN  PostPayload(self, PathTransactionList, hashValues, payloadData, now)

-----------------------------------------------------------------------------
(* The rest of an operation: after the promise of post settles *)

\* Faulty variant: a body that is missing or null is replaced by an empty
\* object, return response.data || {}.
AfterFulfilledDefaultsBody(response) ==
    IF IsNullish(response)
    THEN [pc |-> "raised", result |-> _handle_error(NewError("TypeError", MsgReadOfNullish))]
    ELSE [pc |-> "returned",
          result |-> Or(Get(response, "data"), JsObject("Object", <<>>))]

\* return response.data, inside the try block
AfterFulfilled(response) ==
    IF IsNullish(response)
    THEN [pc |-> "raised", result |-> _handle_error(NewError("TypeError", MsgReadOfNullish))]
    ELSE [pc |-> "returned", result |-> Get(response, "data")]

\* catch (error) { this._handle_error(error) }
AfterRejected(error) == [pc |-> "raised", result |-> _handle_error(error)]

-----------------------------------------------------------------------------
(* Inputs *)

MaxCalls == 2
CallIds  == 1..MaxCalls

S(chars) == JsString(chars)

BaseUrl == S(<<"h","t","t","p",":","/","/","e","x","a","m","p","l","e",".","c","o","m">>)

\* A transport: an object whose post is a function.
Transport == JsObject("Object", <<Prop("post", Js("function", <<>>, 0, "post", <<>>))>>)

\* axios.create(config): an instance that has get and post and keeps config
\* as its defaults.
AxiosCreate(config) ==
    JsObject("Axios", <<Prop("defaults", config),
                        Prop("get", Js("function", <<>>, 0, "get", <<>>)),
                        Prop("post", Js("function", <<>>, 0, "post", <<>>))>>)

\* The client factories handed to the constructor: one returns a transport,
\* one returns thisRef.base_url (test "client factory"), one returns nothing.
FactoryOfTransport == Js("function", <<>>, 0, "() => transport", <<>>)
FactoryOfBaseUrl   == Js("function", <<>>, 0, "(thisRef) => thisRef.base_url", <<>>)
FactoryOfNothing   == Js("function", <<>>, 0, "() => {}", <<>>)

\* client_factory(thisRef)
CallFactory(client_factory, thisRef) ==
    CASE client_factory = FactoryOfTransport -> Transport
      [] client_factory = FactoryOfBaseUrl   -> thisRef.base_url
      [] OTHER                               -> Undefined

\* Faulty variant: the factory is called first, on an instance whose fields
\* are not set yet.
constructor_factory_first(base_url, merchant_id, api_key, client_factory) ==
    LET this == [base_url |-> Undefined, merchant_id |-> Undefined,
                 api_key |-> Undefined, _client |-> Undefined]
        set  == [base_url |-> base_url, merchant_id |-> merchant_id,
                 api_key |-> api_key, _client |-> Undefined]
    IN  IF typeof(client_factory) = "function"
        THEN LET returned == CallFactory(client_factory, this)
             IN  [this |-> [set EXCEPT !._client = returned],
                  factory_calls |-> <<[this |-> this, returned |-> returned]>>]
        ELSE [this |-> [set EXCEPT !._client =
                  AxiosCreate(JsObject("Object", <<
                      Prop("baseURL", base_url),
                      Prop("headers", JsObject("Object", <<
                          Prop("Content-Type", JsString(StrMultipartFormData))>>))>>))],
              factory_calls |-> <<>>]

\* new PayWayClient(base_url, merchant_id, api_key, client_factory): the
\* instance it leaves, and the calls of client_factory it made, each with the
\* instance as the factory saw it and the value the factory returned.
constructor(base_url, merchant_id, api_key, client_factory) ==
    LET this == [base_url |-> base_url, merchant_id |-> merchant_id,
                 api_key |-> api_key, _client |-> Undefined]
    IN  IF typeof(client_factory) = "function"
        THEN LET returned == CallFactory(client_factory, this)
             IN  [this |-> [this EXCEPT !._client = returned],
                  factory_calls |-> <<[this |-> this, returned |-> returned]>>]
        ELSE [this |-> [this EXCEPT !._client =
                  AxiosCreate(JsObject("Object", <<
                      Prop("baseURL", base_url),
                      Prop("headers", JsObject("Object", <<
                          Prop("Content-Type", JsString(StrMultipartFormData))>>))>>))],
              factory_calls |-> <<>>]

\* The arguments of the constructor: with no client_factory and with each of
\* the factories.
ConstructorInputs ==
    { <<BaseUrl, S(<<"1">>), k, f>> :
        k \in {S(<<"1">>), S(<<"k","2">>)},
        f \in {Undefined, FactoryOfTransport, FactoryOfBaseUrl, FactoryOfNothing} }

\* The instances the constructor leaves.
Clients == { constructor(a[1], a[2], a[3], a[4]).this : a \in ConstructorInputs }

\* The values new Date() takes: the first and the last second of the month.
Clock == {JsDate(0), JsDate(2678399)}

Plain(props) == JsObject("Object", props)

Present(p) == p.v # Undefined

\* The object literal with the properties keys, in that order, that f gives a
\* value.
ObjectOf(keys, f) ==
    Plain(SelectSeq([i \in 1..Len(keys) |-> Prop(keys[i], f[keys[i]])], Present))

RequiredKeys == <<"tran_id", "payment_option", "amount", "currency">>

OptionalKeys ==
    <<"return_url", "return_deeplink", "continue_success_url", "pwt", "firstname",
      "lastname", "email", "phone", "items", "type", "custom_fields">>

CreateKeys == RequiredKeys \o OptionalKeys

Range(seq) == {seq[i] : i \in 1..Len(seq)}

Deeplink ==
    Plain(<<Prop("android_scheme", S(<<"a",":","/","/","p">>)),
            Prop("ios_scheme", S(<<"i",":","/","/","p">>))>>)

Items ==
    JsArray(<<Plain(<<Prop("name", S(<<"t","\"","e","a">>)),
                      Prop("quantity", JsNumber(2)),
                      Prop("price", JsNumber(15))>>)>>)

Circular == Plain(<<Prop("name", S(<<"x">>)), Prop("self", Cycle)>>)

\* One valid call with every parameter given, each with its own value.
FullOptions ==
    [ tran_id              |-> S(<<"t","e","s","t">>),
      payment_option       |-> S(<<"a","b","a","p","a","y">>),
      amount               |-> JsNumber(100),
      currency             |-> S(StrUSD),
      return_url           |-> S(<<"h","t","t","p",":","/","/","a","/","c","b">>),
      return_deeplink      |-> S(<<"a","b","a","p","a","y",":","/","/","p">>),
      continue_success_url |-> S(<<"h","t","t","p",":","/","/","a","/","o","k">>),
      pwt                  |-> S(<<"p","o","p","u","p">>),
      firstname            |-> S(<<" ","A","n","n"," ">>),
      lastname             |-> S(<<"L","e","e">>),
      email                |-> S(<<"a","@","b",".","c"," ">>),
      phone                |-> S(<<"0","1","2">>),
      items                |-> Items,
      type                 |-> S(<<"p","r","e","-","a","u","t","h">>),
      custom_fields        |-> S(<<"k","=","v">>) ]

\* The same call with only the optional parameters of keep.
WithOptional(keep) ==
    [k \in Range(CreateKeys) |->
        IF k \in Range(RequiredKeys) \/ k \in keep THEN FullOptions[k] ELSE Undefined]

\* At most this many optional parameters are given, or are left out, together.
MaxVaried == 2

PresenceOptions ==
    { WithOptional(keep) : keep \in
        { K \in SUBSET Range(OptionalKeys) :
            Cardinality(K) <= MaxVaried
            \/ Cardinality(Range(OptionalKeys) \ K) <= MaxVaried } }

\* Values an optional parameter may hold beside its usual string.
SpecialValues ==
    { Null, S(<<>>), S(<<" ","\t">>), JsBoolean(FALSE), JsNumber(0), JsNumber(7), NaN,
      S(<<"?","?","?">>), S(<<"a","?",">","~">>),
      Deeplink, Circular }

SpecialOptions ==
    { [f EXCEPT ![k] = v] :
        f \in {WithOptional({}), WithOptional(Range(OptionalKeys))},
        k \in Range(OptionalKeys),
        v \in SpecialValues }

\* Calls that validation decides: every mix of good and bad required values.
ValidationOptions ==
    { [WithOptional({}) EXCEPT !["tran_id"] = t, !["payment_option"] = p,
                               !["amount"] = a, !["currency"] = c] :
        t \in {Undefined, Null, S(<<>>), S(<<"t","e","s","t">>), JsNumber(5)},
        p \in {Undefined, S(<<>>), S(<<"a","b","a","p","a","y">>), JsNumber(1)},
        a \in {Undefined, Null, JsNumber(0), JsNumber(100), S(<<"1",".","5","0">>)},
        c \in {Undefined, Null, S(StrUSD), S(StrKHR), S(<<"E","U","R">>), S(<<"u","s","d">>)} }

CreateTransactionInputs ==
    { ObjectOf(CreateKeys, f) :
        f \in PresenceOptions \cup SpecialOptions \cup ValidationOptions }
    \cup {Undefined, Null}

CheckTransactionInputs ==
    { Undefined, Null, S(<<>>), S(<<"a","b","c">>), S(<<"t","e","s","t">>), JsNumber(5),
      JsBoolean(TRUE), Deeplink }

ListKeys == <<"from_date", "to_date", "from_amount", "to_amount", "status">>

TransactionListInputs ==
    { ObjectOf(ListKeys,
               [from_date |-> fd, to_date |-> td, from_amount |-> fa, to_amount |-> ta,
                status |-> st]) :
        fd \in {Undefined, Null, S(<<>>), S(<<"2","0","2","4","0","1","0","1">>),
                JsNumber(20240101), JsNumber(0), JsBoolean(FALSE), JsBoolean(TRUE)},
        td \in {Undefined, S(<<"2","0","2","4","0","1","3","1">>), JsNumber(20240131),
                JsNumber(0)},
        fa \in {Undefined, JsNumber(0), JsNumber(10)},
        ta \in {Undefined, S(<<"5","0">>)},
        st \in {Undefined, Null, S(<<"A","P","P","R","O","V","E","D">>)} }
    \cup {Undefined, Null}

\* The body of the test "should create formdata", and one of falsy values.
TestBody ==
    Plain(<<Prop("a", S(<<"a","-","v","a","l","u","e">>)),
            Prop("b", S(<<"b","-","v","a","l","u","e">>)),
            Prop("c", Null),
            Prop("d", Undefined)>>)

FalsyBody ==
    Plain(<<Prop("f", JsBoolean(FALSE)), Prop("n", Null), Prop("z", JsNumber(0)),
            Prop("e", S(<<>>)), Prop("u", Undefined), Prop("nan", NaN),
            Prop("s", S(<<"x">>))>>)

\* Arguments of a direct create_payload call, a missing one being undefined;
\* <<TestBody, JsDate(0), Undefined>> is the call of the test and of index.d.ts.
CreatePayloadInputs ==
    { <<h, b, d>> :
        h \in { JsArray(<<>>), JsArray(<<S(<<"x">>)>>), JsArray(<<S(<<"a">>), Null, JsNumber(3)>>),
                S(<<"a","b">>), TestBody, FalsyBody, Undefined },
        b \in { Undefined, Null, Plain(<<>>), TestBody, FalsyBody, JsDate(0) },
        d \in { Undefined, JsDate(0), JsDate(86399), InvalidDate } }

\* The argument of a direct create_hash call: the array of the test "should
\* hash", other arrays, and values that have no join.
CreateHashInputs ==
    { JsArray(<<S(<<"a">>), S(<<"b">>), S(<<"c">>)>>),
      JsArray(<<>>),
      JsArray(<<S(<<"a","b">>), S(<<"c">>)>>),
      JsArray(<<S(<<"a">>), Null, JsNumber(3), Undefined>>),
      S(<<"a","b","c">>),
      Undefined }

\* What the promise of post is fulfilled with.
Responses ==
    { Plain(<<Prop("data", Plain(<<Prop("status", S(<<"A","P","P","R","O","V","E","D">>))>>))>>),
      Plain(<<Prop("data", Null)>>),
      Plain(<<>>),
      Undefined }

ErrorData ==
    Plain(<<Prop("message", S(<<"I","n","v","a","l","i","d"," ","I","D">>)),
            Prop("code", S(<<"I","N","V","A","L","I","D","_","T","X","N","_","I","D">>))>>)

\* A body whose code is the empty string and that has no message.
EmptyCodeData == Plain(<<Prop("code", S(<<>>))>>)

Failure(message, props) ==
    JsObject("Error", <<Prop("message", S(message))>> \o props)

\* What post throws or its promise is rejected with.
Rejections ==
    { Failure(<<"R","e","q","u","e","s","t"," ","f","a","i","l","e","d">>,
              <<Prop("response", Plain(<<Prop("status", JsNumber(400)), Prop("data", ErrorData)>>))>>),
      Failure(<<"R","e","q","u","e","s","t"," ","f","a","i","l","e","d">>,
              <<Prop("request", Plain(<<>>)),
                Prop("response", Plain(<<Prop("status", JsNumber(500)), Prop("data", Null)>>))>>),
      Failure(<<>>,
              <<Prop("response", Plain(<<Prop("status", JsNumber(502)),
                                          Prop("data", S(<<"B","a","d">>))>>))>>),
      Failure(<<"N","e","t","w","o","r","k"," ","e","r","r","o","r">>,
              <<Prop("request", Plain(<<>>))>>),
      Failure(<<"R","e","q","u","e","s","t"," ","f","a","i","l","e","d">>,
              <<Prop("response", Plain(<<Prop("status", JsNumber(503)),
                                          Prop("data", S(<<>>))>>))>>),
      Failure(<<"R","e","q","u","e","s","t"," ","f","a","i","l","e","d">>,
              <<Prop("response", Plain(<<Prop("status", JsNumber(422)),
                                          Prop("data", EmptyCodeData)>>))>>),
      Failure(<<"b","o","o","m">>, <<>>),
      S(<<"o","o","p","s">>),
      Null,
      Undefined }

-----------------------------------------------------------------------------
(* The state machine *)

NoCall == [op |-> "none", args |-> <<>>, now |-> Undefined]

Init ==
    /\ \E a \in ConstructorInputs :
        LET made == constructor(a[1], a[2], a[3], a[4])
        IN  /\ client = made.this
            /\ construction = [args |-> a, factory_calls |-> made.factory_calls]
    /\ pc     = [c \in CallIds |-> "idle"]
    /\ call   = [c \in CallIds |-> NoCall]
    /\ hashed = [c \in CallIds |-> <<>>]
    /\ posted = [c \in CallIds |-> <<>>]
    /\ result = [c \in CallIds |-> Undefined]
    /\ settled = [c \in CallIds |-> <<>>]

\* Faulty variant: the hash input and the request of the call in progress are
\* kept on the client, one slot for all calls, so a later call overwrites them.
BeginOnSharedSlot(c, op, args, now, r) ==
    /\ pc[c] = "idle"
    /\ pc'     = [pc EXCEPT ![c] = r.pc]
    /\ call'   = [call EXCEPT ![c] = [op |-> op, args |-> args, now |-> now]]
    /\ hashed' = [k \in CallIds |-> r.hashed]
    /\ posted' = [k \in CallIds |-> r.posted]
    /\ result' = [result EXCEPT ![c] = r.result]
    /\ UNCHANGED <<client, settled, construction>>

\* Call c runs operation op with args at time now, up to its first await (r).
Begin(c, op, args, now, r) ==
    /\ pc[c] = "idle"
    /\ pc'     = [pc EXCEPT ![c] = r.pc]
    /\ call'   = [call EXCEPT ![c] = [op |-> op, args |-> args, now |-> now]]
    /\ hashed' = [hashed EXCEPT ![c] = r.hashed]
    /\ posted' = [posted EXCEPT ![c] = r.posted]
    /\ result' = [result EXCEPT ![c] = r.result]
    /\ UNCHANGED <<client, settled, construction>>

CreateTransaction(c) ==
    /\ pc[c] = "idle"
    /\ \E options \in CreateTransactionInputs, now \in Clock :
        Begin(c, "create_transaction", <<options>>, now,
              create_transaction(client, options, now))

CheckTransaction(c) ==
    /\ pc[c] = "idle"
    /\ \E tran_id \in CheckTransactionInputs, now \in Clock :
        Begin(c, "check_transaction", <<tran_id>>, now,
              check_transaction(client, tran_id, now))

TransactionList(c) ==
    /\ pc[c] = "idle"
    /\ \E options \in TransactionListInputs, now \in Clock :
        Begin(c, "transaction_list", <<options>>, now,
              transaction_list(client, options, now))

\* A direct call of create_hash, which is synchronous: values.join("") throws
\* when values has no join, is read as undefined or is no array.
CreateHash(c) ==
    /\ pc[c] = "idle"
    /\ \E values \in CreateHashInputs, now \in Clock :
        Begin(c, "create_hash", <<values>>, now,
              IF IsNullish(values)
              THEN Raised(NewError("TypeError", MsgReadOfNullish))
              ELSE IF ~(values.t = "object" /\ values.c = "Array")
              THEN Raised(NewError("TypeError", MsgJoinNotFunction))
              ELSE [pc |-> "returned",
                    result |-> create_hash(client, SpreadOf(values)),
                    hashed |-> <<SpreadOf(values)>>, posted |-> <<>>])

\* A direct call of create_payload, which is synchronous.
CreatePayload(c) ==
    /\ pc[c] = "idle"
    /\ \E args \in CreatePayloadInputs, now \in Clock :
        LET p == create_payload(client, args[1], args[2], args[3], now)
        IN  Begin(c, "create_payload", args, now,
                  [pc     |-> IF p.c.threw THEN "raised" ELSE "returned",
                   result |-> p.c.v, hashed |-> p.hashed, posted |-> <<>>])

\* Faulty variant: after a rejection the operation drops the transport handle
\* of the client.
SettleDropsTransport(c, how, value, r) ==
    /\ pc[c] = "awaiting"
    /\ pc'      = [pc EXCEPT ![c] = r.pc]
    /\ result'  = [result EXCEPT ![c] = r.result]
    /\ settled' = [settled EXCEPT ![c] = <<[how |-> how, value |-> value]>>]
    /\ client'  = IF how = "rejected" THEN [client EXCEPT !._client = Null] ELSE client
    /\ UNCHANGED <<call, hashed, posted, construction>>

\* The promise of post settles (how, with value) and the operation resumes
\* after its await.
Settle(c, how, value, r) ==
    /\ pc[c] = "awaiting"
    /\ pc'      = [pc EXCEPT ![c] = r.pc]
    /\ result'  = [result EXCEPT ![c] = r.result]
    /\ settled' = [settled EXCEPT ![c] = <<[how |-> how, value |-> value]>>]
    /\ UNCHANGED <<client, call, hashed, posted, construction>>

PostFulfilled(c) ==
    /\ pc[c] = "awaiting"
    /\ \E response \in Responses :
        Settle(c, "fulfilled", response, AfterFulfilled(response))

PostRejected(c) ==
    /\ pc[c] = "awaiting"
    /\ \E error \in Rejections :
        Settle(c, "rejected", error, AfterRejected(error))

\* One caller: a call at a time.
Next ==
    \/ CreateTransaction(1)
    \/ CheckTransaction(1)
    \/ TransactionList(1)
    \/ CreateHash(1)
    \/ CreatePayload(1)
    \/ PostFulfilled(1)
    \/ PostRejected(1)

Spec == Init /\ [][Next]_vars

-----------------------------------------------------------------------------
(* create_hash called again and again on one client *)

NextHash == \E c \in CallIds : CreateHash(c)

SpecHash == Init /\ [][NextHash]_vars

-----------------------------------------------------------------------------
(* The error classes constructed directly, as the tests do *)

ErrorMessages == { <<"T","e","s","t">>, <<>> }

\* Response bodies: with message and code, with an empty code, without code,
\* the empty body, null and none.
ErrorBodies ==
    { ErrorData,
      EmptyCodeData,
      Plain(<<Prop("message", S(<<"T","e","s","t"," ","e","r","r","o","r">>))>>),
      S(<<>>),
      Null,
      Undefined }

ErrorStatuses == { JsNumber(400), JsNumber(500), Undefined }

ErrorCauses ==
    { NewError("Error", <<"N","e","t","w","o","r","k"," ","f","a","i","l","e","d">>),
      S(<<"o","o","p","s">>),
      Null,
      Undefined }

\* new PayWayError(message, response, statusCode)
NewPayWayError(c) ==
    /\ pc[c] = "idle"
    /\ \E message \in ErrorMessages, response \in ErrorBodies,
          statusCode \in ErrorStatuses, now \in Clock :
        Begin(c, "new PayWayError", <<message, response, statusCode>>, now,
              [pc |-> "returned", result |-> PayWayError(message, response, statusCode),
               hashed |-> <<>>, posted |-> <<>>])

\* new PayWayRequestError(message, originalError)
NewPayWayRequestError(c) ==
    /\ pc[c] = "idle"
    /\ \E message \in ErrorMessages, originalError \in ErrorCauses, now \in Clock :
        Begin(c, "new PayWayRequestError", <<message, originalError>>, now,
              [pc |-> "returned", result |-> PayWayRequestError(message, originalError),
               hashed |-> <<>>, posted |-> <<>>])

NextErrors ==
    \/ NewPayWayError(1)
    \/ NewPayWayRequestError(1)

SpecErrors == Init /\ [][NextErrors]_vars

-----------------------------------------------------------------------------
(* trim called directly, and by create_transaction *)

\* The strings tried are at most this long.
MaxLen == 4

RECURSIVE StringsOver(_, _)
StringsOver(chars, n) ==
    IF n = 0 THEN {<<>>}
    ELSE LET shorter == StringsOver(chars, n - 1)
         IN  shorter \cup {Append(s, ch) : s \in shorter, ch \in chars}

\* Strings of whitespace and a letter, and the values of the test "should
\* trim" that are no strings, with a boolean, an object and an array.
TrimInputs ==
    {S(s) : s \in StringsOver({" ", "\t", "\n", "a"}, MaxLen)}
    \cup { Undefined, Null, JsNumber(1), JsNumber(0), NaN, JsBoolean(TRUE),
           Plain(<<Prop("a", S(<<" ">>))>>), JsArray(<<S(<<" ","a">>)>>) }

\* trim(value)
Trim(c) ==
    /\ pc[c] = "idle"
    /\ \E value \in TrimInputs, now \in Clock :
        Begin(c, "trim", <<value>>, now,
              [pc |-> "returned", result |-> trim(value),
               hashed |-> <<>>, posted |-> <<>>])

NextTrim ==
    \/ Trim(1)
    \/ CreateTransaction(1)

SpecTrim == Init /\ [][NextTrim]_vars

-----------------------------------------------------------------------------
(* Several callers: calls on one client that interleave at their awaits *)

\* The callers share a client that has a transport.
InitConcurrent == Init /\ client._client = Transport

ConcurrentCreateInputs ==
    { ObjectOf(CreateKeys, WithOptional({"firstname", "return_url"})),
      ObjectOf(CreateKeys, [WithOptional({}) EXCEPT !["currency"] = Undefined]) }

ConcurrentCheckInputs == { S(<<"a","b","c">>), S(<<>>) }

ConcurrentListInputs ==
    { Plain(<<Prop("from_date", S(<<"2","0","2","4","0","1","0","1">>)),
              Prop("status", S(<<"A","P","P","R","O","V","E","D">>))>>),
      Plain(<<Prop("to_date", JsNumber(20240131))>>) }

ConcurrentResponses ==
    { Plain(<<Prop("data", Plain(<<Prop("status", S(<<"A","P","P","R","O","V","E","D">>))>>))>>) }

ConcurrentRejections ==
    { Failure(<<"R","e","q","u","e","s","t"," ","f","a","i","l","e","d">>,
              <<Prop("response", Plain(<<Prop("status", JsNumber(400)), Prop("data", ErrorData)>>))>>),
      Failure(<<"N","e","t","w","o","r","k"," ","e","r","r","o","r">>,
              <<Prop("request", Plain(<<>>))>>) }

ConcurrentCreateTransaction(c) ==
    /\ pc[c] = "idle"
    /\ \E options \in ConcurrentCreateInputs, now \in Clock :
        Begin(c, "create_transaction", <<options>>, now,
              create_transaction(client, options, now))

ConcurrentCheckTransaction(c) ==
    /\ pc[c] = "idle"
    /\ \E tran_id \in ConcurrentCheckInputs, now \in Clock :
        Begin(c, "check_transaction", <<tran_id>>, now,
              check_transaction(client, tran_id, now))

ConcurrentTransactionList(c) ==
    /\ pc[c] = "idle"
    /\ \E options \in ConcurrentListInputs, now \in Clock :
        Begin(c, "transaction_list", <<options>>, now,
              transaction_list(client, options, now))

ConcurrentPostFulfilled(c) ==
    /\ pc[c] = "awaiting"
    /\ \E response \in ConcurrentResponses :
        Settle(c, "fulfilled", response, AfterFulfilled(response))

ConcurrentPostRejected(c) ==
    /\ pc[c] = "awaiting"
    /\ \E error \in ConcurrentRejections :
        Settle(c, "rejected", error, AfterRejected(error))

\* Any call may take the next step: calls start while others await, and the
\* promises settle in any order.
NextConcurrent ==
    \E c \in CallIds :
        \/ ConcurrentCreateTransaction(c)
        \/ ConcurrentCheckTransaction(c)
        \/ ConcurrentTransactionList(c)
        \/ ConcurrentPostFulfilled(c)
        \/ ConcurrentPostRejected(c)

SpecConcurrent == InitConcurrent /\ [][NextConcurrent]_vars

-----------------------------------------------------------------------------
(* What the claims speak of *)

\* The first argument of call c, and the parameter k it gives.
Arg(c) == call[c].args[1]

Param(c, k) == IF IsNullish(Arg(c)) THEN Undefined ELSE Get(Arg(c), k)

\* The one request call c sent, and its fields.
Request(c)  == posted[c][1]
Fields(c)   == Request(c).data.o
FieldNames(form) == [i \in 1..Len(form) |-> form[i].k]

\* The fields between merchant_id and hash.
OperationFields(form) == SubSeq(form, 3, Len(form) - 1)

\* The value of the field named k, for a form with one.
Field(form, k) == form[CHOOSE i \in 1..Len(form) : form[i].k = k].v

HasField(form, k) == \E i \in 1..Len(form) : form[i].k = k

\* create_transaction's preconditions, in the words of the specification.
IsNonEmptyString(v) == v.t = "string" /\ v.s # <<>>

CreateIsValid(c) ==
    /\ call[c].op = "create_transaction"
    /\ Arg(c) # Null
    /\ IsNonEmptyString(Param(c, "tran_id"))
    /\ IsNonEmptyString(Param(c, "payment_option"))
    /\ ~IsNullish(Param(c, "amount"))
    /\ Param(c, "currency") \in {S(StrUSD), S(StrKHR)}

\* The forms of the parameters of create_transaction that the protocol
\* speaks of: names trimmed, the URL, the deeplink and the items encoded, type
\* defaulted.
Trimmed(v) == IF v.t = "string" THEN S(StringTrim(v.s)) ELSE v

EncodedString(v) == IF v.t = "string" THEN S(Base64Encode(Utf8Encode(v.s))) ELSE v

EncodedStructured(v) ==
    IF v.t = "object" THEN S(Base64Encode(Utf8Encode(JsonText(v)))) ELSE EncodedString(v)

Serializable(c) ==
    ~HasCycle(Param(c, "return_deeplink")) /\ ~HasCycle(Param(c, "items"))

ProtocolValue(c, k) ==
    CASE k \in {"firstname", "lastname", "email", "phone"} -> Trimmed(Param(c, k))
      [] k = "return_url" -> EncodedString(Param(c, k))
      [] k \in {"return_deeplink", "items"} -> EncodedStructured(Param(c, k))
      [] k = "type" -> IF Param(c, k) = Undefined THEN S(StrPurchase) ELSE Param(c, k)
      [] OTHER -> Param(c, k)

\* A value as a string, a missing one as the empty string.
AsString(v) == IF IsNullish(v) THEN S(<<>>) ELSE S(JsToString(v))

ReqTime(c) == S(FormatDate(call[c].now))

HashOrder ==
    <<"tran_id", "amount", "items", "firstname", "lastname", "email", "phone", "type",
      "payment_option", "continue_success_url", "return_url", "return_deeplink",
      "currency", "custom_fields", "pwt">>

BodyOrder ==
    <<"tran_id", "amount", "pwt", "firstname", "lastname", "email", "phone", "items",
      "type", "payment_option", "return_url", "continue_success_url", "return_deeplink",
      "currency", "custom_fields">>

ExpectedCreateHashInput(c) ==
    <<ReqTime(c), client.merchant_id>>
        \o [i \in 1..Len(HashOrder) |-> AsString(ProtocolValue(c, HashOrder[i]))]

\* C1: a create_transaction call that passes validation hands the hash
\* function req_time, merchant_id and then the 15 protocol values in the
\* order of HashOrder, each as a string (encoded, trimmed, missing -> ""),
\* and it does so once, whenever it sends a request.
C1_HashInputOrder ==
    \A c \in CallIds :
        CreateIsValid(c) /\ Serializable(c) =>
            /\ hashed[c] \in {<<>>, <<ExpectedCreateHashInput(c)>>}
            /\ posted[c] # <<>> => hashed[c] # <<>>
            /\ \A h \in Range(hashed[c]) : \A i \in 1..Len(h) : h[i].t = "string"

\* A valid call with every optional parameter given has sent its request.
C1_Witness ==
    \E c \in CallIds :
        /\ CreateIsValid(c)
        /\ \A k \in Range(OptionalKeys) : ~IsNullish(Param(c, k))
        /\ Param(c, "items").t = "object"
        /\ posted[c] # <<>>
        /\ hashed[c] = <<ExpectedCreateHashInput(c)>>

RECURSIVE Retained(_, _)
\* The names of order whose protocol value in call c is not null or undefined.
Retained(c, order) ==
    IF order = <<>> THEN <<>>
    ELSE (IF IsNullish(ProtocolValue(c, Head(order))) THEN <<>> ELSE <<Head(order)>>)
            \o Retained(c, Tail(order))

\* C2: the operation fields of a create_transaction request are those of
\* BodyOrder whose value is not null or undefined, in the order of BodyOrder.
C2_BodyFieldOrder ==
    \A c \in CallIds :
        CreateIsValid(c) /\ posted[c] # <<>> =>
            FieldNames(OperationFields(Fields(c))) = Retained(c, BodyOrder)

\* A request with some fields dropped and some kept around them.
C2_Witness ==
    \E c \in CallIds :
        /\ CreateIsValid(c) /\ posted[c] # <<>>
        /\ FieldNames(OperationFields(Fields(c)))
             = <<"tran_id", "amount", "items", "type", "payment_option", "return_url", "currency">>

\* The names that call c's operation signs after req_time and merchant_id,
\* in the order of the protocol.
ListOrder == <<"from_date", "to_date", "from_amount", "to_amount", "status">>

ProtocolOrder(c) ==
    CASE call[c].op = "create_transaction" -> HashOrder
      [] call[c].op = "check_transaction"  -> <<"tran_id">>
      [] call[c].op = "transaction_list"   -> ListOrder

IsOperation(c) ==
    call[c].op \in {"create_transaction", "check_transaction", "transaction_list"}

\* C3: in every request of the three operations the hash input has the fixed
\* length 2 + 15, 2 + 1 or 2 + 5; its first two values are the req_time and
\* merchant_id transmitted; at each protocol position it holds the value
\* transmitted for that field, or the empty string when the field was
\* dropped; and every operation field transmitted has such a position.
C3_MissingValuePolicies ==
    \A c \in CallIds :
        IsOperation(c) /\ posted[c] # <<>> =>
            LET form  == Fields(c)
                ops   == OperationFields(form)
                order == ProtocolOrder(c)
                h     == hashed[c][1]
            IN  /\ Len(hashed[c]) = 1
                /\ Len(h) = 2 + Len(order)
                /\ Len(order) \in {15, 1, 5}
                /\ h[1] = Field(form, "req_time")
                /\ h[2] = Field(form, "merchant_id")
                /\ \A i \in 1..Len(order) :
                      h[2 + i] = IF HasField(ops, order[i]) THEN Field(ops, order[i])
                                 ELSE S(<<>>)
                /\ \A i \in 1..Len(ops) : ops[i].k \in Range(order)

\* A create_transaction request that drops pwt and transmits a trimmed
\* firstname, which is hashed at its position.
C3_Witness ==
    \E c \in CallIds :
        /\ call[c].op = "create_transaction" /\ posted[c] # <<>>
        /\ ~HasField(Fields(c), "pwt")
        /\ HasField(Fields(c), "firstname")
        /\ hashed[c][1][6] = S(<<"A","n","n">>)
        /\ hashed[c][1][17] = S(<<>>)

\* The entries of a body (an object, or nothing) that are kept.
KeptEntries(body) ==
    IF body = Undefined THEN <<>> ELSE SelectSeq(body.o, LAMBDA e : ~IsNullish(e.v))

IsBody(v) == v = Undefined \/ (v.t = "object" /\ v.c \in {"Object", "Date"})

\* Direct calls of create_payload that returned a field set.
PayloadReturned(c) == call[c].op = "create_payload" /\ pc[c] = "returned"

Count(form, k) == Cardinality({i \in 1..Len(form) : form[i].k = k})

\* C4: a field set made by create_payload is req_time, merchant_id (the
\* client's), the retained body fields in their given order, hash; in the
\* requests of the three operations req_time, merchant_id and hash occur
\* once each.
C4_FieldSetShape ==
    \A c \in CallIds :
        /\ PayloadReturned(c) /\ IsBody(call[c].args[2]) =>
              LET form == result[c].o
                  date == IF call[c].args[3] = Undefined THEN call[c].now
                          ELSE call[c].args[3]
              IN  /\ FieldNames(form)
                        = <<"req_time", "merchant_id">>
                            \o FieldNames(KeptEntries(call[c].args[2])) \o <<"hash">>
                  /\ form[1].v = S(FormatDate(date))
                  /\ form[2].v = client.merchant_id
        /\ IsOperation(c) /\ posted[c] # <<>> =>
              LET form == Fields(c)
              IN  /\ Len(posted[c]) = 1
                  /\ form[1] = Prop("req_time", ReqTime(c))
                  /\ form[2] = Prop("merchant_id", client.merchant_id)
                  /\ form[Len(form)].k = "hash"
                  /\ \A k \in {"req_time", "merchant_id", "hash"} : Count(form, k) = 1

\* A direct call that kept two body fields, in their order.
C4_Witness ==
    \E c \in CallIds :
        /\ PayloadReturned(c)
        /\ FieldNames(result[c].o) = <<"req_time", "merchant_id", "a", "b", "hash">>

\* C5: create_payload drops a body entry exactly when its value is null or
\* undefined; false, 0 and "" are kept, as strings; nothing else is removed or
\* added.
C5_DropsOnlyNullish ==
    \A c \in CallIds :
        PayloadReturned(c) /\ IsBody(call[c].args[2]) /\ call[c].args[2] # Undefined =>
            LET body == call[c].args[2].o
                ops  == OperationFields(result[c].o)
            IN  /\ \A i \in 1..Len(body) :
                      /\ HasField(ops, body[i].k) <=> ~IsNullish(body[i].v)
                      /\ ~IsNullish(body[i].v) =>
                            Field(ops, body[i].k) = S(JsToString(body[i].v))
                /\ \A i \in 1..Len(ops) : \E j \in 1..Len(body) : body[j].k = ops[i].k
                /\ Len(ops) = Cardinality({i \in 1..Len(body) : ~IsNullish(body[i].v)})

\* The body with false, 0, "" and NaN went through: those four are sent.
C5_Witness ==
    \E c \in CallIds :
        /\ PayloadReturned(c) /\ call[c].args[2] = FalsyBody
        /\ FieldNames(OperationFields(result[c].o)) = <<"f", "z", "e", "nan", "s">>
        /\ Field(result[c].o, "f") = S(StrFalse)
        /\ Field(result[c].o, "z") = S(<<"0">>)
        /\ Field(result[c].o, "e") = S(<<>>)

\* C6: create_payload(body, date), the call of the test "should create
\* formdata" and of index.d.ts, returns a field set with req_time, the
\* client's merchant_id, hash and the body entries that are not null or
\* undefined.
C6_TwoArgumentCall ==
    \A c \in CallIds :
        /\ call[c].op = "create_payload"
        /\ call[c].args[1].t = "object" /\ call[c].args[1].c = "Object"
        /\ call[c].args[2].t = "object" /\ call[c].args[2].c = "Date"
        /\ call[c].args[3] = Undefined
        => /\ pc[c] = "returned"
           /\ HasField(result[c].o, "req_time")
           /\ HasField(result[c].o, "hash")
           /\ HasField(result[c].o, "merchant_id")
           /\ Field(result[c].o, "merchant_id") = client.merchant_id
           /\ \A i \in 1..Len(call[c].args[1].o) :
                LET e == call[c].args[1].o[i]
                IN  IF IsNullish(e.v) THEN ~HasField(result[c].o, e.k)
                    ELSE HasField(result[c].o, e.k) /\ Field(result[c].o, e.k) = e.v

\* The messages of the validation errors (index.js 528-546, 621-625, 650-659).
ValidationMessages ==
    { MsgCreateTranId, MsgCreatePaymentOption, MsgCreateAmount, MsgCreateCurrency,
      MsgCheckTranId, MsgListFromDate, MsgListToDate }

IsValidationError(v) ==
    v.t = "object" /\ v.c = "Error" /\ Get(v, "message").s \in ValidationMessages

Message(c) == Get(result[c], "message").s

TextTranId ==
    <<"t","r","a","n","_","i","d"," ","i","s"," ","r","e","q","u","i","r","e","d"," ",
      "a","n","d"," ","m","u","s","t"," ","b","e"," ","a"," ","s","t","r","i","n","g">>

TextPaymentOption ==
    <<"p","a","y","m","e","n","t","_","o","p","t","i","o","n"," ","i","s"," ",
      "r","e","q","u","i","r","e","d"," ","a","n","d"," ","m","u","s","t"," ","b","e"," ",
      "a"," ","s","t","r","i","n","g">>

TextAmount == <<"a","m","o","u","n","t"," ","i","s"," ","r","e","q","u","i","r","e","d">>

TextCurrency ==
    <<"c","u","r","r","e","n","c","y"," ","i","s"," ","r","e","q","u","i","r","e","d"," ",
      "a","n","d"," ","m","u","s","t"," ","b","e"," ","\"","U","S","D","\""," ","o","r"," ",
      "\"","K","H","R","\"">>

\* The text of the first of the four checks that call c's parameters fail, in
\* the order tran_id, payment_option, amount, currency; <<>> when none fails.
CreateRejection(c) ==
    IF ~IsNonEmptyString(Param(c, "tran_id")) THEN TextTranId
    ELSE IF ~IsNonEmptyString(Param(c, "payment_option")) THEN TextPaymentOption
    ELSE IF IsNullish(Param(c, "amount")) THEN TextAmount
    ELSE IF Param(c, "currency") \notin {S(StrUSD), S(StrKHR)} THEN TextCurrency
    ELSE <<>>

\* C7: create_transaction checks tran_id, payment_option, amount, currency in
\* that order and raises the plain error of the first check that fails, whose
\* message holds that check's text; parameters that pass the four checks
\* never end in a validation error.
C7_ValidationOrder ==
    \A c \in CallIds :
        call[c].op = "create_transaction" /\ Arg(c) # Null =>
            IF CreateRejection(c) # <<>>
            THEN /\ pc[c] = "raised"
                 /\ IsValidationError(result[c])
                 /\ Includes(Message(c), CreateRejection(c))
            ELSE ~IsValidationError(result[c])

\* A call that fails the payment_option check and the amount check got the
\* payment_option error; and a call that passes all four went on.
C7_Witness ==
    \E c \in CallIds :
        /\ call[c].op = "create_transaction" /\ Arg(c) # Null
        /\ IsNonEmptyString(Param(c, "tran_id"))
        /\ Param(c, "payment_option") = JsNumber(1)
        /\ Param(c, "amount") = Null
        /\ Param(c, "currency") = S(<<"E","U","R">>)
        /\ pc[c] = "raised"
        /\ Includes(Message(c), TextPaymentOption)

\* The calls of the examples.
OnlyTranId == Plain(<<Prop("tran_id", S(<<"t","e","s","t">>))>>)

NoAmount == Plain(OnlyTranId.o \o <<Prop("payment_option", S(<<"a","b","a","p","a","y">>))>>)

NoCurrency == Plain(NoAmount.o \o <<Prop("amount", JsNumber(100))>>)

EurCurrency == Plain(NoCurrency.o \o <<Prop("currency", S(<<"E","U","R">>))>>)

\* Call c raised a validation error whose message holds the word w.
Mentions(c, w) ==
    pc[c] = "raised" /\ IsValidationError(result[c]) /\ Includes(Message(c), w)

WordTranId        == <<"t","r","a","n","_","i","d">>
WordPaymentOption == <<"p","a","y","m","e","n","t","_","o","p","t","i","o","n">>
WordAmount        == <<"a","m","o","u","n","t">>
WordUsdOrKhr      == <<"m","u","s","t"," ","b","e"," ","\"","U","S","D","\""," ","o","r"," ",
                       "\"","K","H","R","\"">>

C8_LaterExamples(c) ==
    /\ Arg(c) = NoAmount => Mentions(c, WordAmount)
    /\ Arg(c) \in {NoCurrency, EurCurrency} => Mentions(c, WordUsdOrKhr)

\* C8 as stated: with only {tran_id: "test"} the error mentions "tran_id";
\* without amount it mentions "amount"; without a valid currency it says
\* currency must be "USD" or "KHR".
C8_Original ==
    \A c \in CallIds :
        call[c].op = "create_transaction" =>
            /\ Arg(c) = OnlyTranId => Mentions(c, WordTranId)
            /\ C8_LaterExamples(c)

\* C8 amended: with only {tran_id: "test"} the error mentions
\* "payment_option", the first parameter that is missing; the other two
\* examples are as stated.
C8_Amended ==
    \A c \in CallIds :
        call[c].op = "create_transaction" =>
            /\ Arg(c) = OnlyTranId => Mentions(c, WordPaymentOption) /\ ~Mentions(c, WordTranId)
            /\ C8_LaterExamples(c)

\* The call with only tran_id was made and raised the payment_option error.
C8_Witness ==
    \E c \in CallIds :
        /\ call[c].op = "create_transaction"
        /\ Arg(c) = OnlyTranId
        /\ Mentions(c, WordPaymentOption)

\* Whether the validation of call c's operation rejects its parameters.
Rejects(c) ==
    CASE call[c].op = "create_transaction" ->
            Arg(c) # Null /\ CreateRejection(c) # <<>>
      [] call[c].op = "check_transaction" -> ~IsNonEmptyString(Arg(c))
      [] call[c].op = "transaction_list" ->
            /\ Arg(c) # Null
            /\ \/ Truthy(Param(c, "from_date")) /\ Param(c, "from_date").t # "string"
               \/ Truthy(Param(c, "to_date")) /\ Param(c, "to_date").t # "string"
      [] OTHER -> FALSE

\* C9: in the three operations a call whose parameters fail validation ends
\* raised with the validation error, with no request built (nothing hashed)
\* and post never invoked; and whenever a validation error was raised,
\* nothing was hashed or posted.
C9_ValidationBeforeTransport ==
    \A c \in CallIds :
        /\ Rejects(c) =>
              /\ pc[c] = "raised" /\ IsValidationError(result[c])
              /\ posted[c] = <<>> /\ hashed[c] = <<>>
        /\ IsOperation(c) /\ IsValidationError(result[c]) =>
              posted[c] = <<>> /\ hashed[c] = <<>>

\* A rejected create_transaction call on a client whose transport has post.
C9_Witness ==
    /\ typeof(Get(client._client, "post")) = "function"
    /\ \E c \in CallIds :
        /\ call[c].op = "create_transaction"
        /\ Rejects(c) /\ pc[c] = "raised" /\ posted[c] = <<>>
        /\ ~IsNullish(Param(c, "tran_id"))

OwnNames(v) == {v.o[i].k : i \in 1..Len(v.o)}

\* C10: a validation failure of any of the three operations is a plain
\* Error: no PayWayError, no PayWayRequestError, without errorCode,
\* statusCode, details, response or originalError.
C10_ValidationErrorIsPlain ==
    \A c \in CallIds :
        Rejects(c) =>
            /\ pc[c] = "raised"
            /\ result[c].t = "object" /\ result[c].c = "Error"
            /\ ~InstanceOf(result[c], "PayWayError")
            /\ ~InstanceOf(result[c], "PayWayRequestError")
            /\ OwnNames(result[c]) = {"message"}

\* A transaction_list call rejected for a from_date that is a number.
C10_Witness ==
    \E c \in CallIds :
        /\ call[c].op = "transaction_list"
        /\ Rejects(c)
        /\ Param(c, "from_date") = JsNumber(20240101)
        /\ result[c] = NewError("Error", MsgListFromDate)

-----------------------------------------------------------------------------
(* The error mapping *)

\* The promise of post of call c was rejected, and with what.
Failed(c) ==
    IsOperation(c) /\ settled[c] # <<>> /\ settled[c][1].how = "rejected"

Cause(c) == settled[c][1].value

\* The failure carries a received response: its status and its body.
ReceivedResponse(e) == ~IsNullish(e) /\ Truthy(Get(e, "response"))

Status(c) == Get(Get(Cause(c), "response"), "status")
Body(c)   == Get(Get(Cause(c), "response"), "data")

\* The code field of a body that has one.
BodyCode(c) == GetOptional(Body(c), "code")

EndsWith(s, w) ==
    Len(w) <= Len(s) /\ SubSeq(s, Len(s) - Len(w) + 1, Len(s)) = w

TextUnknownError == <<"U","n","k","n","o","w","n"," ","e","r","r","o","r">>

\* What the message is built from: the body's message, else the message of
\* the transport error, else "Unknown error".
MessageSource(c) ==
    LET own  == GetOptional(Body(c), "message")
        mine == Get(Cause(c), "message")
    IN  IF Truthy(own) THEN JsToString(own)
        ELSE IF Truthy(mine) THEN JsToString(mine)
        ELSE TextUnknownError

\* What C11 says of every failure with a response, apart from errorCode and
\* details.
RaisesPayWayError(c) ==
    /\ pc[c] = "raised"
    /\ result[c].c = "PayWayError"
    /\ ~InstanceOf(result[c], "PayWayRequestError")
    /\ Get(result[c], "statusCode") = Status(c)
    /\ EndsWith(Message(c), MessageSource(c))

\* C11 as stated: in all three operations a failure with a received response
\* raises a PayWayError (no PayWayRequestError) with statusCode the HTTP
\* status, errorCode the body's code when the body has one and null
\* otherwise, details the full body, and a message built from the body's
\* message, else the transport error's message, else "Unknown error".
C11_Original ==
    \A c \in CallIds :
        Failed(c) /\ ReceivedResponse(Cause(c)) =>
            /\ RaisesPayWayError(c)
            /\ Get(result[c], "errorCode") =
                    (IF IsNullish(BodyCode(c)) THEN Null ELSE BodyCode(c))
            /\ Get(result[c], "details") = Body(c)

\* C11, amended: as stated, but errorCode is the body's code when that is
\* truthy (present and not empty) and null otherwise, and details is the body
\* when that is truthy and null otherwise (an empty body gives null).
C11_Amended ==
    \A c \in CallIds :
        Failed(c) /\ ReceivedResponse(Cause(c)) =>
            /\ RaisesPayWayError(c)
            /\ Get(result[c], "errorCode") =
                    (IF Truthy(BodyCode(c)) THEN BodyCode(c) ELSE Null)
            /\ Get(result[c], "details") =
                    (IF Truthy(Body(c)) THEN Body(c) ELSE Null)

\* A create_transaction whose transport failed with status 400 and a body
\* {message, code} raised a PayWayError with that status, code and message.
C11_Witness ==
    \E c \in CallIds :
        /\ call[c].op = "create_transaction"
        /\ Failed(c) /\ ReceivedResponse(Cause(c))
        /\ Body(c) = ErrorData
        /\ Get(result[c], "statusCode") = JsNumber(400)
        /\ Get(result[c], "errorCode") = Get(ErrorData, "code")
        /\ EndsWith(Message(c), Get(ErrorData, "message").s)

TextNetworkError ==
    <<"N","e","t","w","o","r","k"," ","e","r","r","o","r",":"," ","N","o"," ","r","e","s",
      "p","o","n","s","e"," ","r","e","c","e","i","v","e","d"," ","f","r","o","m"," ","P",
      "a","y","W","a","y"," ","A","P","I">>

TextRequestError == <<"R","e","q","u","e","s","t"," ","e","r","r","o","r",":"," ">>

\* The request was sent: the failure carries it.
RequestSent(e) == Truthy(Get(e, "request"))

\* C12: in all three operations a failure of the transport without a received
\* response raises a PayWayRequestError whose originalError is the failure
\* itself, with the message "Network error: No response received from PayWay
\* API" when the request was sent and "Request error: " followed by the
\* failure's message when it was not.
C12_TransportFailure ==
    \A c \in CallIds :
        Failed(c) /\ ~ReceivedResponse(Cause(c)) =>
            /\ pc[c] = "raised"
            /\ result[c].c = "PayWayRequestError"
            /\ Get(result[c], "originalError") = Cause(c)
            /\ Message(c) =
                    (IF RequestSent(Cause(c)) THEN TextNetworkError
                     ELSE TextRequestError \o JsToString(Get(Cause(c), "message")))

\* The three kinds of error an operation is said to raise.
IsOneOfThreeKinds(e) ==
    \/ IsValidationError(e)
    \/ e.t = "object" /\ e.c \in {"PayWayError", "PayWayRequestError"}

\* C13: whatever the parameters and whatever the transport does, a call of
\* one of the three operations that has ended either returned the body of the
\* response it got or raised a plain validation error, a PayWayError or a
\* PayWayRequestError; a call whose transport failed did not return.
C13_OneOfThreeKinds ==
    \A c \in CallIds :
        IsOperation(c) =>
            /\ pc[c] = "returned" =>
                    /\ settled[c] # <<>> /\ settled[c][1].how = "fulfilled"
                    /\ result[c] = Get(settled[c][1].value, "data")
            /\ pc[c] = "raised" => IsOneOfThreeKinds(result[c])
            /\ Failed(c) => pc[c] = "raised"

-----------------------------------------------------------------------------
(* Success *)

\* The promise of post of call c was fulfilled with a response.
Succeeded(c) ==
    /\ IsOperation(c) /\ settled[c] # <<>> /\ settled[c][1].how = "fulfilled"
    /\ ~IsNullish(settled[c][1].value)

Response(c) == settled[c][1].value

\* C14: in all three operations, when post succeeds with a response, the call
\* returns the data of that response and nothing else: the same value,
\* whether an object, null or missing.
C14_ReturnsResponseData ==
    \A c \in CallIds :
        Succeeded(c) => pc[c] = "returned" /\ result[c] = Get(Response(c), "data")

\* check_transaction("abc") over a transport that answers
\* {status: "APPROVED"} returned that object.
C14_Witness ==
    \E c \in CallIds :
        /\ call[c].op = "check_transaction" /\ Arg(c) = S(<<"a","b","c">>)
        /\ Succeeded(c) /\ pc[c] = "returned"
        /\ result[c] = Plain(<<Prop("status", S(<<"A","P","P","R","O","V","E","D">>))>>)

-----------------------------------------------------------------------------
(* One request per call *)

\* The path of each operation.
OwnPath(op) ==
    CASE op = "create_transaction" -> "/api/payment-gateway/v1/payments/purchase"
      [] op = "check_transaction"  -> "/api/payment-gateway/v1/payments/check-transaction"
      [] op = "transaction_list"   -> "/api/payment-gateway/v1/payments/transaction-list"

\* C15: a call of an operation has invoked post at most once, with the path of
\* its operation, at every moment: while it awaits and after it has ended in
\* success, an error response, no response or a failure to send.
C15_NoRetries ==
    \A c \in CallIds :
        IsOperation(c) =>
            /\ Len(posted[c]) <= 1
            /\ \A i \in 1..Len(posted[c]) : posted[c][i].path = OwnPath(call[c].op)

\* A transaction_list whose transport failed has ended with the one request
\* it sent to the transaction-list path.
C15_Witness ==
    \E c \in CallIds :
        /\ call[c].op = "transaction_list"
        /\ Failed(c) /\ pc[c] = "raised"
        /\ Len(posted[c]) = 1
        /\ posted[c][1].path = "/api/payment-gateway/v1/payments/transaction-list"

-----------------------------------------------------------------------------
(* Calls in flight together *)

\* What call c does up to its await when it is the only call: a function of
\* its own operation, parameters and timestamp and of the client.
Alone(c) ==
    CASE call[c].op = "create_transaction" ->
            create_transaction(client, call[c].args[1], call[c].now)
      [] call[c].op = "check_transaction" ->
            check_transaction(client, call[c].args[1], call[c].now)
      [] call[c].op = "transaction_list" ->
            transaction_list(client, call[c].args[1], call[c].now)

\* What it does after its own promise has settled.
AloneAfter(c) ==
    IF settled[c][1].how = "fulfilled" THEN AfterFulfilled(settled[c][1].value)
    ELSE AfterRejected(settled[c][1].value)

\* C16: with several calls in flight on one client, interleaved at their
\* awaits in any order, the hash input, the request (path and fields) and the
\* result of each call are those the call has when it runs alone with its own
\* parameters, its own timestamp, the client's credentials and its own
\* transport outcome: no other call shows in them.
C16_CallsAreIndependent ==
    \A c \in CallIds :
        pc[c] # "idle" =>
            LET alone == Alone(c)
            IN  /\ hashed[c] = alone.hashed
                /\ posted[c] = alone.posted
                /\ IF settled[c] = <<>>
                   THEN pc[c] = alone.pc /\ result[c] = alone.result
                   ELSE /\ alone.pc = "awaiting"
                        /\ pc[c] = AloneAfter(c).pc
                        /\ result[c] = AloneAfter(c).result

\* Two calls of different operations, started at different times, each with
\* its request sent, are awaiting their transport at the same moment.
C16_Witness ==
    \E c, d \in CallIds :
        /\ c # d
        /\ pc[c] = "awaiting" /\ pc[d] = "awaiting"
        /\ call[c].op = "create_transaction" /\ call[d].op = "check_transaction"
        /\ call[c].now # call[d].now
        /\ posted[c] # posted[d] /\ hashed[c] # hashed[d]

-----------------------------------------------------------------------------
(* The client after construction *)

\* C17: no step of a call of create_hash, create_payload, create_transaction,
\* check_transaction or transaction_list, neither its start nor the
\* settlement of its transport, whether the call succeeds or fails, changes
\* the client's base_url, merchant_id, api_key or transport handle.
C17_ClientIsImmutable ==
    [][/\ client'.base_url = client.base_url
       /\ client'.merchant_id = client.merchant_id
       /\ client'.api_key = client.api_key
       /\ client'._client = client._client]_vars

\* A create_transaction has failed at its transport with the client still
\* holding its transport handle and its credentials.
C17_Witness ==
    \E c \in CallIds :
        /\ call[c].op = "create_transaction"
        /\ Failed(c) /\ pc[c] = "raised"
        /\ client._client = Transport
        /\ client.api_key = S(<<"k","2">>)

-----------------------------------------------------------------------------
(* check_transaction *)

\* C18: check_transaction with a tran_id that is not a non-empty string ("",
\* null, undefined, a number, a boolean, an object) raises a validation error
\* that mentions tran_id and sends nothing; with a non-empty string it sends,
\* over a client that has a transport, one request whose fields are exactly
\* req_time, merchant_id, tran_id, hash, in that order, with the hash taken
\* over [req_time, merchant_id, tran_id].
C18_CheckTransaction ==
    \A c \in CallIds :
        call[c].op = "check_transaction" =>
            IF ~IsNonEmptyString(Arg(c))
            THEN /\ Mentions(c, WordTranId)
                 /\ posted[c] = <<>>
            ELSE /\ client._client = Transport => Len(posted[c]) = 1
                 /\ posted[c] # <<>> =>
                        /\ Fields(c) =
                              << Prop("req_time", ReqTime(c)),
                                 Prop("merchant_id", client.merchant_id),
                                 Prop("tran_id", Arg(c)),
                                 Prop("hash",
                                      HmacSha512Base64(client.api_key,
                                          ReqTime(c).s \o client.merchant_id.s \o Arg(c).s)) >>
                        /\ hashed[c] = <<<<ReqTime(c), client.merchant_id, Arg(c)>>>>

\* check_transaction("abc") has sent its four fields.
C18_Witness ==
    \E c \in CallIds :
        /\ call[c].op = "check_transaction" /\ Arg(c) = S(<<"a","b","c">>)
        /\ Len(posted[c]) = 1
        /\ FieldNames(Fields(c)) = <<"req_time", "merchant_id", "tran_id", "hash">>
        /\ Field(Fields(c), "tran_id") = S(<<"a","b","c">>)

-----------------------------------------------------------------------------
(* transaction_list *)

\* A date parameter that is given (neither null nor undefined) and is no
\* string.
PresentNonString(v) == ~IsNullish(v) /\ v.t # "string"

\* C19: transaction_list raises a validation error whenever from_date is
\* present and not a string, and whenever to_date is present and not a
\* string, and in no other case; so no request that was sent has a from_date
\* or to_date that is present and not a string.
C19_DateTypeValidation ==
    \A c \in CallIds :
        call[c].op = "transaction_list" /\ pc[c] # "idle" =>
            LET bad == \/ PresentNonString(Param(c, "from_date"))
                       \/ PresentNonString(Param(c, "to_date"))
            IN  /\ bad => pc[c] = "raised" /\ IsValidationError(result[c])
                /\ ~bad => ~(pc[c] = "raised" /\ IsValidationError(result[c]))
                /\ posted[c] # <<>> => ~bad

\* A transaction_list call that got past its validation: it was started with
\* options it could read and did not end in a validation error.
ListPassedValidation(c) ==
    /\ call[c].op = "transaction_list" /\ Arg(c) # Null
    /\ ~(pc[c] = "raised" /\ IsValidationError(result[c]))

\* What the body holds for the parameters of order that are given.
SentValues(c, order) ==
    [i \in 1..Len(order) |-> Prop(order[i], AsString(Param(c, order[i])))]

\* C20: a transaction_list call that passes validation hashes req_time,
\* merchant_id, from_date, to_date, from_amount, to_amount, status, in that
\* order, each as a string and a null or undefined one as the empty string,
\* and the body it sends holds the same five fields in that order, without
\* those that are null or undefined; over a client that has a transport it
\* does send.
C20_TransactionListOrder ==
    \A c \in CallIds :
        ListPassedValidation(c) =>
            /\ client._client = Transport => Len(posted[c]) = 1
            /\ posted[c] # <<>> =>
                 /\ hashed[c] =
                       << <<ReqTime(c), client.merchant_id,
                            AsString(Param(c, "from_date")),
                            AsString(Param(c, "to_date")),
                            AsString(Param(c, "from_amount")),
                            AsString(Param(c, "to_amount")),
                            AsString(Param(c, "status"))>> >>
                 /\ OperationFields(Fields(c)) = SentValues(c, Retained(c, ListOrder))

\* A request with from_date, from_amount 0 and to_amount, and with to_date
\* left out and status null, both dropped from the body and hashed as "".
C20_Witness ==
    \E c \in CallIds :
        /\ ListPassedValidation(c) /\ posted[c] # <<>>
        /\ Param(c, "to_date") = Undefined /\ Param(c, "status") = Null
        /\ Param(c, "from_amount") = JsNumber(0)
        /\ FieldNames(OperationFields(Fields(c))) = <<"from_date", "from_amount", "to_amount">>
        /\ hashed[c][1][4] = S(<<>>) /\ hashed[c][1][5] = S(<<"0">>)
        /\ hashed[c][1][7] = S(<<>>)

-----------------------------------------------------------------------------
(* The encodings of create_transaction *)

\* The position of the parameter k in the hash input of create_transaction,
\* after req_time and merchant_id.
HashPosition(k) == 2 + (CHOOSE i \in 1..Len(HashOrder) : HashOrder[i] = k)

\* The value hashed for k by a call that hashed.
Hashed(c, k) == hashed[c][1][HashPosition(k)]

\* A valid create_transaction that has sent its request.
CreateSent(c) == CreateIsValid(c) /\ Len(posted[c]) = 1 /\ Len(hashed[c]) = 1

\* C21: when a valid create_transaction is given a string return_url, the
\* return_url field it transmits is the base64 text of that string (standard
\* alphabet, padded), decoding the field gives the string back, and the value
\* at the return_url position of the hash input is the transmitted one.
C21_ReturnUrlRoundTrip ==
    \A c \in CallIds :
        CreateSent(c) /\ Param(c, "return_url").t = "string" =>
            /\ HasField(Fields(c), "return_url")
            /\ LET sent == Field(Fields(c), "return_url")
               IN  /\ sent.t = "string"
                   /\ \A i \in 1..Len(sent.s) :
                         \E j \in 1..Len(Base64Alphabet) :
                            sent.s[i] = Base64Alphabet[j] \/ sent.s[i] = "="
                   /\ Len(sent.s) = 4 * ((Len(Param(c, "return_url").s) + 2) \div 3)
                   /\ Utf8Decode(Base64Decode(sent.s)) = Param(c, "return_url").s
                   /\ Hashed(c, "return_url") = sent

\* A URL whose length is no multiple of three went out padded and differs
\* from its encoding.
C21_Witness ==
    \E c \in CallIds :
        /\ CreateSent(c)
        /\ Param(c, "return_url") = S(<<"a","?",">","~">>)
        /\ Field(Fields(c), "return_url") = S(<<"Y","T","8","+","f","g","=","=">>)

\* The JSON text of the structured values that calls are given:
\* {"android_scheme":"a://p","ios_scheme":"i://p"} and
\* [{"name":"t\"ea","quantity":2,"price":15}].
TextDeeplinkJson ==
    <<"{","\"","a","n","d","r","o","i","d","_","s","c","h","e","m","e","\"",":",
      "\"","a",":","/","/","p","\"",",","\"","i","o","s","_","s","c","h","e","m",
      "e","\"",":","\"","i",":","/","/","p","\"","}">>

TextItemsJson ==
    <<"[","{","\"","n","a","m","e","\"",":","\"","t","\\","\"","e","a","\"",",",
      "\"","q","u","a","n","t","i","t","y","\"",":","2",",","\"","p","r","i","c",
      "e","\"",":","1","5","}","]">>

JsonOf(v) == IF v = Deeplink THEN TextDeeplinkJson ELSE TextItemsJson

\* A base64 text: groups of four characters of the alphabet, padded with "=".
IsBase64(s) ==
    /\ Len(s) % 4 = 0
    /\ \A i \in 1..Len(s) :
          s[i] = "=" \/ \E j \in 1..Len(Base64Alphabet) : s[i] = Base64Alphabet[j]

\* The text that the transmitted field k of call c decodes to.
Decoded(c, k) == Utf8Decode(Base64Decode(Field(Fields(c), k).s))

\* C22: in a create_transaction that was sent, return_deeplink and items
\* each follow one rule: a string is transmitted as its base64 text, a
\* structured value (an object or a list) as the base64 text of its JSON
\* text, and a null or undefined one is not transmitted and is hashed as the
\* empty string; the value transmitted is the value hashed.
C22_DeeplinkAndItems ==
    \A c \in CallIds : \A k \in {"return_deeplink", "items"} :
        CreateSent(c) =>
            LET v == Param(c, k)
            IN  /\ v.t = "string" =>
                    /\ HasField(Fields(c), k)
                    /\ IsBase64(Field(Fields(c), k).s)
                    /\ Len(Field(Fields(c), k).s) = 4 * ((Len(v.s) + 2) \div 3)
                    /\ Decoded(c, k) = v.s
                    /\ Hashed(c, k) = Field(Fields(c), k)
                /\ v.t = "object" =>
                    /\ HasField(Fields(c), k)
                    /\ IsBase64(Field(Fields(c), k).s)
                    /\ Decoded(c, k) = JsonOf(v)
                    /\ Hashed(c, k) = Field(Fields(c), k)
                /\ IsNullish(v) =>
                    /\ ~HasField(Fields(c), k)
                    /\ Hashed(c, k) = S(<<>>)

\* One request carries a list of items as encoded JSON and a string deeplink
\* encoded directly.
C22_Witness ==
    \E c \in CallIds :
        /\ CreateSent(c)
        /\ Param(c, "items") = Items
        /\ Param(c, "return_deeplink").t = "string"
        /\ Decoded(c, "items") = TextItemsJson
        /\ Decoded(c, "return_deeplink") = Param(c, "return_deeplink").s
        /\ Hashed(c, "items") = Field(Fields(c), "items")

TextPurchase == <<"p","u","r","c","h","a","s","e">>

\* C23: a create_transaction that was sent without a type (the parameter is
\* missing: undefined or null) transmits the field type with the value
\* "purchase" and hashes "purchase" at the position of type; one that was
\* given a type transmits and hashes that value.
C23_TypeDefault ==
    \A c \in CallIds :
        CreateSent(c) =>
            LET expected == IF IsNullish(Param(c, "type")) THEN S(TextPurchase)
                            ELSE AsString(Param(c, "type"))
            IN  /\ HasField(Fields(c), "type")
                /\ Field(Fields(c), "type") = expected
                /\ Hashed(c, "type") = expected

-----------------------------------------------------------------------------
(* The secret *)

\* What the call c ends in on the client self: the same operation, parameters
\* and timestamp, and the same transport outcome when the call gets to its
\* await.
EndsOn(self, c) ==
    LET begun == CASE call[c].op = "create_transaction" ->
                        create_transaction(self, call[c].args[1], call[c].now)
                   [] call[c].op = "check_transaction" ->
                        check_transaction(self, call[c].args[1], call[c].now)
                   [] call[c].op = "transaction_list" ->
                        transaction_list(self, call[c].args[1], call[c].now)
    IN  IF begun.pc = "awaiting" /\ settled[c] # <<>>
        THEN (IF settled[c][1].how = "fulfilled"
              THEN AfterFulfilled(settled[c][1].value)
              ELSE AfterRejected(settled[c][1].value))
        ELSE [pc |-> begun.pc, result |-> begun.result]

\* The keys a client may have, and the client that differs from the one of
\* the state in its key only.
ApiKeys == {k.api_key : k \in Clients}

WithKey(k) == [client EXCEPT !.api_key = k]

ErrorFields == {"message", "errorCode", "statusCode", "details", "response", "originalError"}

\* C24: an error raised by one of the three operations is the error that a
\* client with another api_key raises for the same parameters, timestamp and
\* transport outcome, field by field; and no field of it (message,
\* errorCode, statusCode, details, response, originalError) is the api_key or
\* a text that holds it.
C24_KeyNotInErrors ==
    \A c \in CallIds :
        IsOperation(c) /\ pc[c] = "raised" =>
            /\ \A k \in ApiKeys \ {client.api_key} :
                  LET other == EndsOn(WithKey(k), c)
                  IN  other.pc = "raised" /\ other.result = result[c]
            /\ client.api_key = S(<<"k","2">>) =>
                  \A f \in ErrorFields :
                      /\ Get(result[c], f) # client.api_key
                      /\ Get(result[c], f).t = "string" =>
                            ~Includes(Get(result[c], f).s, client.api_key.s)

\* A create_transaction signed with the key "k2" has sent its request and
\* has raised a PayWayError after the transport failed.
C24_Witness ==
    \E c \in CallIds :
        /\ call[c].op = "create_transaction"
        /\ client.api_key = S(<<"k","2">>)
        /\ Len(hashed[c]) = 1 /\ Len(posted[c]) = 1
        /\ Field(Fields(c), "hash").o = <<Prop("key", client.api_key)>>
        /\ Failed(c) /\ pc[c] = "raised" /\ result[c].c = "PayWayError"

-----------------------------------------------------------------------------
(* create_hash *)

RECURSIVE Joined(_)
\* The values of a list one after the other with nothing between them, each
\* as a string and a null or undefined one as nothing.
Joined(values) ==
    IF values = <<>> THEN <<>>
    ELSE AsString(Head(values)).s \o Joined(Tail(values))

\* The values a create_hash call was given, for a call given a list.
HashArgument(c) == [i \in 1..Len(Arg(c).o) |-> Arg(c).o[i].v]

HashReturned(c) ==
    call[c].op = "create_hash" /\ pc[c] = "returned"

\* C25: create_hash returns the digest of the concatenation of its values,
\* in their order and without separator, under the client's api_key; so two
\* calls on one client whose lists concatenate to the same text (["a","b",
\* "c"] and ["ab","c"], or the same list twice) return the same hash; a call
\* sends nothing.
C25_HashOfConcatenation ==
    \A c \in CallIds :
        HashReturned(c) =>
            /\ result[c] = HmacSha512Base64(client.api_key, Joined(HashArgument(c)))
            /\ posted[c] = <<>>
            /\ \A d \in CallIds :
                  HashReturned(d) =>
                    (Joined(HashArgument(c)) = Joined(HashArgument(d))
                        => result[c] = result[d])

\* ["a","b","c"] and ["ab","c"] were hashed by two calls, to the same hash.
C25_Witness ==
    \E c, d \in CallIds :
        /\ HashReturned(c) /\ HashReturned(d)
        /\ Arg(c) = JsArray(<<S(<<"a">>), S(<<"b">>), S(<<"c">>)>>)
        /\ Arg(d) = JsArray(<<S(<<"a","b">>), S(<<"c">>)>>)
        /\ result[c] = result[d]


-----------------------------------------------------------------------------
(* The transport the constructor chooses *)

ClientFactory == construction.args[4]

\* The requests of all calls, in any order.
Requests == UNION { Range(posted[c]) : c \in CallIds }

\* The configuration the default HTTP client was made with.
Defaults(transport) == Get(transport, "defaults")

\* C26: when client_factory is a function the constructor has called it
\* exactly once, on the instance with base_url, merchant_id and api_key
\* already set, and what it returned is the transport, through which every
\* request of every operation goes; when no client_factory was given the
\* transport is the axios instance made with baseURL base_url and the header
\* Content-Type multipart/form-data, and every request goes through it.
C26_ClientFactory ==
    /\ typeof(ClientFactory) = "function" =>
        /\ Len(construction.factory_calls) = 1
        /\ LET made == construction.factory_calls[1]
           IN  /\ made.this.base_url    = construction.args[1]
               /\ made.this.merchant_id = construction.args[2]
               /\ made.this.api_key     = construction.args[3]
               /\ client = [made.this EXCEPT !._client = made.returned]
               /\ \A r \in Requests : r.via = made.returned
    /\ ClientFactory = Undefined =>
        /\ construction.factory_calls = <<>>
        /\ client._client.c = "Axios"
        /\ typeof(Get(client._client, "post")) = "function"
        /\ Get(Defaults(client._client), "baseURL") = construction.args[1]
        /\ Get(Get(Defaults(client._client), "headers"), "Content-Type")
               = JsString(StrMultipartFormData)
        /\ \A r \in Requests : r.via = client._client

\* An operation has sent its request through the transport a factory returned,
\* and has returned.
C26_Witness ==
    /\ typeof(ClientFactory) = "function"
    /\ pc[1] = "returned"
    /\ Len(posted[1]) = 1
    /\ posted[1][1].via = Transport

-----------------------------------------------------------------------------
(* The fields of the error classes *)

Built(c, class) == pc[c] = "returned" /\ call[c].op = class

\* Every PayWayRequestError is a PayWayError and an Error, has no error code,
\* status or details, and keeps its cause, null standing for no cause.
RequestErrorFields(c) ==
    Built(c, "new PayWayRequestError") =>
        LET cause == call[c].args[2]
        IN  /\ InstanceOf(result[c], "PayWayRequestError")
            /\ InstanceOf(result[c], "PayWayError")
            /\ InstanceOf(result[c], "Error")
            /\ Get(result[c], "errorCode")  = Null
            /\ Get(result[c], "statusCode") = Null
            /\ Get(result[c], "details")    = Null
            /\ Get(result[c], "originalError")
                   = IF cause = Undefined THEN Null ELSE cause

\* C27 as stated: a PayWayRequestError is a PayWayError and an Error with
\* null errorCode, statusCode and details and its cause as originalError; a
\* PayWayError built from a body and a status has the body's code as
\* errorCode, null when the body has none, the status as statusCode, and the
\* body as details and as response, null when the body is null.
C27_Original ==
    \A c \in CallIds :
        /\ (Built(c, "new PayWayRequestError") /\ call[c].args[2] # Undefined)
               => RequestErrorFields(c)
        /\ (/\ Built(c, "new PayWayError")
            /\ call[c].args[2] # Undefined
            /\ call[c].args[3] # Undefined) =>
               LET body   == call[c].args[2]
                   status == call[c].args[3]
               IN  /\ Get(result[c], "errorCode")
                          = IF ~IsNullish(body) /\ HasOwn(body, "code")
                            THEN Get(body, "code") ELSE Null
                   /\ Get(result[c], "statusCode") = status
                   /\ Get(result[c], "details")    = body
                   /\ Get(result[c], "response")   = body

\* C27, amended: as stated, except that errorCode is the body's code only when
\* that is not empty (truthy) and null otherwise, details is the body only when
\* that is not empty (truthy) and null otherwise, and a body, status or cause
\* that was not given (undefined) is kept as null.
C27_Amended ==
    \A c \in CallIds :
        /\ RequestErrorFields(c)
        /\ Built(c, "new PayWayError") =>
               LET body   == call[c].args[2]
                   status == call[c].args[3]
                   code   == IF IsNullish(body) THEN Undefined ELSE Get(body, "code")
               IN  /\ InstanceOf(result[c], "Error")
                   /\ ~InstanceOf(result[c], "PayWayRequestError")
                   /\ Get(result[c], "errorCode")
                          = IF Truthy(code) THEN code ELSE Null
                   /\ Get(result[c], "statusCode")
                          = IF status = Undefined THEN Null ELSE status
                   /\ Get(result[c], "details")
                          = IF Truthy(body) THEN body ELSE Null
                   /\ Get(result[c], "response")
                          = IF body = Undefined THEN Null ELSE body

\* A PayWayError has been built from a body with a code and a status.
C27_Witness ==
    /\ Built(1, "new PayWayError")
    /\ call[1].args[2] = ErrorData
    /\ call[1].args[3] = JsNumber(400)
    /\ Get(result[1], "errorCode") = Get(ErrorData, "code")
    /\ Get(result[1], "details") = ErrorData

-----------------------------------------------------------------------------
(* trim *)

\* t is s without a stretch of whitespace at its start and one at its end,
\* and has no whitespace left at either end.
IsTrimOf(t, s) ==
    /\ \E i, j \in 0..Len(s) :
        /\ i + j <= Len(s)
        /\ t = SubSeq(s, i + 1, Len(s) - j)
        /\ \A n \in 1..i : s[n] \in WhiteSpace
        /\ \A n \in (Len(s) - j + 1)..Len(s) : s[n] \in WhiteSpace
    /\ t # <<>> => Head(t) \notin WhiteSpace /\ t[Len(t)] \notin WhiteSpace

TrimmedParameters == {"firstname", "lastname", "email", "phone"}

\* C28: trim of a string is that string without its leading and trailing
\* whitespace, the interior as it was; trim of any other value is that value,
\* of its own type; and a valid create_transaction hashes, and transmits when
\* given, firstname, lastname, email and phone so trimmed.
C28_Trim ==
    \A c \in CallIds :
        /\ Built(c, "trim") =>
               IF Arg(c).t = "string"
               THEN result[c].t = "string" /\ IsTrimOf(result[c].s, Arg(c).s)
               ELSE result[c] = Arg(c)
        /\ CreateSent(c) =>
               \A k \in TrimmedParameters :
                   LET given == Param(c, k)
                   IN  /\ given.t = "string" =>
                              /\ IsTrimOf(Hashed(c, k).s, given.s)
                              /\ HasField(Fields(c), k)
                              /\ Field(Fields(c), k) = Hashed(c, k)
                       /\ given.t # "string" =>
                              /\ Hashed(c, k) = AsString(given)
                              /\ HasField(Fields(c), k) <=> ~IsNullish(given)
                              /\ HasField(Fields(c), k) =>
                                     Field(Fields(c), k) = AsString(given)

\* A create_transaction was given a firstname with whitespace on both sides
\* and has sent and hashed it without.
C28_Witness ==
    /\ CreateSent(1)
    /\ Param(1, "firstname") = S(<<" ","A","n","n"," ">>)
    /\ Hashed(1, "firstname") = S(<<"A","n","n">>)
    /\ Field(Fields(1), "firstname") = S(<<"A","n","n">>)

-----------------------------------------------------------------------------
(* The order of the branches of the error mapping *)

BeginsWith(s, w) == Len(w) <= Len(s) /\ SubSeq(s, 1, Len(w)) = w

\* Call c raised what the error mapping made of a failure.
Mapped(c) ==
    /\ IsOperation(c)
    /\ pc[c] = "raised"
    /\ result[c].t = "object"
    /\ result[c].c \in {"PayWayError", "PayWayRequestError"}

TookNetworkBranch(c) ==
    Mapped(c) /\ result[c].c = "PayWayRequestError" /\ Message(c) = TextNetworkError

TookRequestBranch(c) ==
    Mapped(c) /\ result[c].c = "PayWayRequestError"
              /\ BeginsWith(Message(c), TextRequestError)

\* The failure the mapping was given, which a PayWayRequestError keeps.
Mapping(c) == Get(result[c], "originalError")

\* C29: a failure of the transport that carries both a received response and
\* a sent request is raised as a PayWayError and not as a PayWayRequestError;
\* a call that raised the "Network error" message had a failure without a
\* response, and one that raised a "Request error: " message had a failure
\* with neither a response nor a request.
C29_BranchOrder ==
    \A c \in CallIds :
        /\ (Failed(c) /\ ReceivedResponse(Cause(c)) /\ RequestSent(Cause(c))) =>
               /\ Mapped(c)
               /\ result[c].c = "PayWayError"
               /\ ~InstanceOf(result[c], "PayWayRequestError")
        /\ TookNetworkBranch(c) =>
               /\ ~ReceivedResponse(Mapping(c))
               /\ Failed(c) /\ ~ReceivedResponse(Cause(c))
        /\ TookRequestBranch(c) =>
               /\ ~ReceivedResponse(Mapping(c)) /\ ~RequestSent(Mapping(c))
               /\ Failed(c) => ~ReceivedResponse(Cause(c)) /\ ~RequestSent(Cause(c))

\* The transport failed with both a response and a request, and the call
\* raised a PayWayError with the status of the response.
C29_Witness ==
    /\ Failed(1)
    /\ ReceivedResponse(Cause(1)) /\ RequestSent(Cause(1))
    /\ result[1].c = "PayWayError"
    /\ Get(result[1], "statusCode") = JsNumber(500)

-----------------------------------------------------------------------------
(* Exceptions between validation and the transport *)

\* Call c is a create_transaction or transaction_list whose parameters passed
\* validation.
PassedValidation(c) == CreateIsValid(c) \/ ListPassedValidation(c)

\* The call ended in an exception without having invoked post.
RaisedBeforePost(c) == pc[c] = "raised" /\ posted[c] = <<>> /\ settled[c] = <<>>

\* A transport that can be invoked.
HasPost(transport) ==
    ~IsNullish(transport) /\ typeof(Get(transport, "post")) = "function"

\* C30: a create_transaction or transaction_list that passed validation and
\* then met an exception before post was invoked raises a PayWayRequestError
\* whose originalError is that exception and whose message is "Request error: "
\* followed by the exception's message; a return_deeplink or items that cannot
\* be serialized, and a transport that cannot be invoked, are such exceptions,
\* and post is not invoked.
C30_ExceptionBeforeTransport ==
    \A c \in CallIds :
        /\ PassedValidation(c) /\ pc[c] = "raised" /\ posted[c] = <<>> =>
               /\ settled[c] = <<>>
               /\ result[c].c = "PayWayRequestError"
               /\ LET exception == Get(result[c], "originalError")
                  IN  /\ InstanceOf(exception, "Error")
                      /\ ~InstanceOf(exception, "PayWayError")
                      /\ Message(c) = TextRequestError \o Get(exception, "message").s
        /\ (\/ CreateIsValid(c) /\ ~Serializable(c)
            \/ PassedValidation(c) /\ ~HasPost(client._client)) =>
               /\ RaisedBeforePost(c)
               /\ result[c].c = "PayWayRequestError"
               /\ Get(result[c], "originalError").c = "TypeError"

\* A valid create_transaction over a transport that has post was given items
\* that cannot be serialized, and raised the request error without a request.
C30_Witness ==
    /\ CreateIsValid(1)
    /\ HasPost(client._client)
    /\ HasCycle(Param(1, "items"))
    /\ RaisedBeforePost(1)
    /\ result[1].c = "PayWayRequestError"
    /\ BeginsWith(Message(1), TextRequestError)

====
